---------------------------- MODULE Spec2Model ----------------------------
(***************************************************************************)
(* A model of the AWS clean-up scripts of the repository:                  *)
(*   - cleanS3Buckets.ts : the bucket clean-up driver (main), the          *)
(*     stack-aware deleter, the bucket emptier, the batch deleter with     *)
(*     its per-object fallback and the multipart-upload aborter;           *)
(*   - rename-secrets.ts : the secret rename / expire workflow and its     *)
(*     retry helper;                                                       *)
(*   - schedule-clean-secrets-manager.ts : the scheduled secret deletion.  *)
(* Every provider call (an `await client.send(...)`) is one step; the      *)
(* provider is the environment and answers each call nondeterministically. *)
(***************************************************************************)
EXTENDS Integers, Sequences, FiniteSets, TLC

\* ------------------------------------------------------------- bounds
\* Longest comma-separated bucket list given on the command line.
MaxBuckets == 2
\* Most entries (Versions + DeleteMarkers, or Uploads) of one listing page
\* served to the bucket emptier checked on its own, and to the driver.
MaxPageLen == 2
MaxDriverPageLen == 1
\* Longest chain of listing pages the provider serves to one listing loop
\* of the bucket emptier checked on its own, and of the driver.
MaxPages == 3
MaxDriverPages == 2
\* Cap on the totalSkipped counter of one per-object fallback run.
MaxSkipped == 3

\* --------------------------------------------------- program constants
\* cleanS3Buckets.ts:199  const CHUNK_SIZE = 1000;
CHUNK_SIZE == 1000

VARIABLES
  pc,                \* the await (or internal step) the script is at
  stack,             \* return labels of the active function calls
  mainArgv,          \* main: process.argv.slice(2)
  exitCode,          \* the exit code in a sequence, empty while running
  bucketArray,       \* main: the trimmed, comma-separated bucket names
  processed,         \* the names main has begun an iteration for, in order
  bi,                \* main: index of the bucket of the current iteration
  stackName,         \* main: the stack named by the bucket's tag, or null
  wasDeleted,        \* main: what deleteBucket returned
  nonDeletedBuckets, \* main: undeleted-buckets accumulator
  nonDeletedStacks,  \* main: undeleted-stacks accumulator
  live,              \* provider: the buckets that exist
  limits,            \* provider: longest page and longest chain it serves
  protectionStatus,  \* deleteCloudFormationStack: "True" or "False"
  objects,           \* deletePageBatch: its `objects` argument
  ci,                \* deletePageBatch: index of the current chunk
  oi,                \* deletePageOneByOne: index of the current object
  totalSkipped,      \* deletePageOneByOne: its skip counter
  nextKeyMarker,     \* clearBucketContents: key marker of the next listing
  nextVersionIdMarker, \* clearBucketContents: version-id marker of the same
  page,              \* clearBucketContents: the listing page just received
  mpuKeyMarker,      \* clearMultipartUploads: nextKeyMarker
  mpuUploadIdMarker, \* clearMultipartUploads: nextUploadIdMarker
  result,            \* clearMultipartUploads: the upload listing received
  ui,                \* clearMultipartUploads: index of the current upload
  lastCall,          \* the latest provider request and its outcome
  dpbObs,            \* seen since deletePageBatch was entered
  cbcObs,            \* seen since clearBucketContents was entered
  cfnObs,            \* seen since deleteCloudFormationStack was entered
  iterObs            \* seen since main's current iteration began

dpbVars == << objects, ci, oi, totalSkipped >>

cbcVars == << nextKeyMarker, nextVersionIdMarker, page >>

mpuVars == << mpuKeyMarker, mpuUploadIdMarker, result, ui >>

cfnVars == << protectionStatus >>

mainVars == << mainArgv, exitCode, bucketArray, processed, bi, stackName,
               wasDeleted,
               nonDeletedBuckets, nonDeletedStacks >>

\* rename-secrets.ts: main's position, process.argv.slice(2), the parsed
\* arguments, the concurrent markSecretForDeletion tasks, and what
\* Secrets Manager has been made to create and to schedule for deletion.
VARIABLES rsPc, argv, secretNames, days, tasks, created, scheduled

rsVars == << rsPc, argv, secretNames, days, tasks, created, scheduled >>

\* callWithRetry(operation, retries, delayMs) of rename-secrets.ts on its
\* own: its arguments, its position, its loop variable, what the operation
\* answered at each invocation, the sleeps, and what it returned or threw.
VARIABLE cwr

\* schedule-clean-secrets-manager.ts: process.argv.slice(2), the position
\* of each of the two calls of main the module makes, and the concurrent
\* scheduleDeletion tasks of both.
VARIABLES scArgv, scMains, scTasks

scVars == << scArgv, scMains, scTasks >>

\* security-insight-secrets-mgr.ts and its twin for S3.8: which of the two
\* runs, its position, the token and the findings of getSecretsManagerFindings
\* / getNoSslFindings, the requests made and the responses received, and the
\* rows of the two worksheets.
VARIABLE sh

\* categorizeS3Buckets.ts: one call of categorizeBucket, with what the CLI
\* printed for each command and what the function returned.
VARIABLE cb

\* scripts/apply-lifecycle.sh: one run of the script.
VARIABLE al

toolVars == << sh, cb, al >>

\* The state of the scripts other than cleanS3Buckets.ts.
otherScripts == << rsVars, cwr, scVars, toolVars >>

\* What a step of rename-secrets.ts's main leaves alone.
rsFrame == << pc, stack, mainArgv, exitCode, bucketArray, processed, bi,
              stackName, wasDeleted,
              nonDeletedBuckets, nonDeletedStacks, live, limits,
              protectionStatus, objects, ci, oi, totalSkipped,
              nextKeyMarker, nextVersionIdMarker, page, mpuKeyMarker,
              mpuUploadIdMarker, result, ui, lastCall, dpbObs, cbcObs,
              cfnObs, iterObs, cwr, scVars, toolVars >>

s3Vars == << pc, stack, mainVars, live, limits, cfnVars, dpbVars, cbcVars,
             mpuVars, lastCall, dpbObs, cbcObs, cfnObs, iterObs >>

vars == << s3Vars, otherScripts >>

\* ------------------------------------------------------------ helpers
Min(a, b) == IF a < b THEN a ELSE b

\* Array.prototype.slice(start, end) on 0-based indices.
slice(items, start, end) == SubSeq(items, start + 1, Min(end, Len(items)))

RECURSIVE chunkFrom(_, _, _)
chunkFrom(items, size, i) ==
  IF i < Len(items)
  THEN << slice(items, i, i + size) >> \o chunkFrom(items, size, i + size)
  ELSE << >>

\* A faulty chunkArray that keeps only the chunks of full length.
chunkArrayFullOnly(items, size) ==
  SelectSeq(chunkFrom(items, size, 0), LAMBDA c : Len(c) = size)

\* A faulty chunkArray that hands the whole array over as one chunk.
chunkArrayWhole(items, size) == << items >>

\* cleanS3Buckets.ts chunkArray: sub-arrays of length `size`.
chunkArray(items, size) == chunkFrom(items, size, 0)

\* The bucket the current iteration of main works on.
bucketName == bucketArray[bi]

\* Strings that a script takes apart are sequences of characters.
Drop(s, n) == SubSeq(s, n + 1, Len(s))

\* String.prototype.trim
RECURSIVE TrimStart(_)
TrimStart(s) ==
  IF s # << >> /\ Head(s) = " " THEN TrimStart(Tail(s)) ELSE s

RECURSIVE TrimEnd(_)
TrimEnd(s) ==
  IF s # << >> /\ s[Len(s)] = " "
  THEN TrimEnd(SubSeq(s, 1, Len(s) - 1))
  ELSE s

trim(s) == TrimEnd(TrimStart(s))

\* String.prototype.split(separator) for a one-character separator.
RECURSIVE split(_, _)
split(s, separator) ==
  IF \E i \in 1..Len(s) : s[i] = separator
  THEN LET i == CHOOSE k \in 1..Len(s) :
                  /\ s[k] = separator
                  /\ \A j \in 1..(k - 1) : s[j] # separator
       IN  << SubSeq(s, 1, i - 1) >> \o split(Drop(s, i), separator)
  ELSE << s >>

\* JavaScript's undefined (and null), for optional strings.
Undef == "undefined"

\* Truthiness of an optional string: undefined and "" are falsy.
Truthy(x) == x # Undef /\ x # ""

\* `x || undefined`
OrUndefined(x) == IF Truthy(x) THEN x ELSE Undef

NoCall == [op |-> "none", objs |-> << >>, km |-> Undef, vm |-> Undef,
           ok |-> TRUE, reason |-> ""]

\* A provider request (its operation, the object identifiers or the
\* markers it carries) and whether the provider answered or threw.
Call(op, objs, km, vm, ok) ==
  [op |-> op, objs |-> objs, km |-> km, vm |-> vm, ok |-> ok,
   reason |-> ""]

\* One more provider call, failed or not, in main's current iteration.
Counted(obs, op, ok) ==
  [obs EXCEPT !.failed = @ \/ ~ok,
              !.locations = @ + (IF op = "GetBucketLocation" THEN 1 ELSE 0),
              !.otherCalls = @ \/ op # "GetBucketLocation"]

\* A function returns: control goes to the caller's continuation.
Return ==
  IF stack = << >>
  THEN pc' = "done" /\ stack' = stack
  ELSE pc' = Head(stack) /\ stack' = Tail(stack)

NoDpbObs == [n |-> 0, batchCalls |-> 0, batchFails |-> 0,
             fallback |-> "none", fbLen |-> 0, chunkSingles |-> 0,
             singleFails |-> 0, skipLog |-> 0, returned |-> FALSE]

NoCbcObs == [lists |-> 0, listFailed |-> FALSE, served |-> 0,
             terminal |-> 0, lastMarkers |-> << Undef, Undef >>,
             nonEmptyPages |-> 0, batches |-> 0, failed |-> FALSE,
             failedAfterPages |-> FALSE, deleted |-> FALSE,
             puts |-> 0, mpuLists |-> 0, mpuServed |-> 0,
             mpuTerminal |-> 0, mpuListFailed |-> FALSE,
             returned |-> FALSE]

NoCfnObs == [deleteStacks |-> 0, failedAttempts |-> 0, cleared |-> 0,
             recorded |-> 0, protectionFailed |-> FALSE,
             returned |-> FALSE]

NoIterObs == [failed |-> FALSE, locations |-> 0, otherCalls |-> FALSE,
              clears |-> 0, existed |-> FALSE, tagged |-> FALSE,
              deleteBucketOk |-> FALSE, pushed |-> FALSE,
              stacksBefore |-> 0, name |-> "", finished |-> FALSE]

\* The listing loop is over: what was seen of its pages is dropped.
LoopForgotten(obs) ==
  [NoCbcObs EXCEPT !.listFailed = obs.listFailed, !.failed = obs.failed,
                   !.failedAfterPages = obs.failedAfterPages,
                   !.deleted = obs.deleted,
                   !.puts = obs.puts]

\* ----------------------------------------------------- deletePageBatch
\* What a step of deletePageBatch / deletePageOneByOne leaves alone.
dpbFrame == << otherScripts, mainVars, live, limits, cfnVars, cbcVars,
              mpuVars, cfnObs >>

chunks == chunkArray(objects, CHUNK_SIZE)

\* `for (const chunk of chunks)` goes to chunk number `next`, or
\* deletePageBatch returns when there is no such chunk.
GotoChunk(next, obs) ==
  IF next > Len(chunks)
  THEN /\ Return
       /\ dpbObs' = [obs EXCEPT !.returned = TRUE]
       /\ objects' = << >>
       /\ ci' = 1
  ELSE /\ pc' = "dpb_DeleteObjects"
       /\ dpbObs' = obs
       /\ UNCHANGED << stack, objects >>
       /\ ci' = next

AdvanceChunk(obs) == GotoChunk(ci + 1, obs)

\* deletePageBatch is entered: the empty-array early return, else the
\* chunk loop starts.
DpbEntry ==
  /\ pc = "dpb_entry"
  /\ IF Len(objects) = 0
     THEN /\ Return
          /\ dpbObs' = [NoDpbObs EXCEPT !.returned = TRUE]
          /\ UNCHANGED << objects, ci >>
     ELSE GotoChunk(1, [NoDpbObs EXCEPT !.n = Len(objects)])
  /\ UNCHANGED << dpbFrame, oi, totalSkipped, lastCall, iterObs, cbcObs >>

\* The batch DeleteObjects call of the current chunk succeeds.
DpbDeleteObjectsOk ==
  /\ pc = "dpb_DeleteObjects"
  /\ bucketName \in live
  /\ lastCall' = Call("DeleteObjects", chunks[ci], Undef, Undef, TRUE)
  /\ iterObs' = Counted(iterObs, "DeleteObjects", TRUE)
  /\ cbcObs' = [cbcObs EXCEPT !.batches = @ + 1, !.deleted = TRUE]
  /\ AdvanceChunk([dpbObs EXCEPT !.batchCalls = @ + 1])
  /\ UNCHANGED << dpbFrame, oi, totalSkipped >>

\* A faulty catch block that rethrows instead of falling back.
DpbDeleteObjectsFailRethrows ==
  /\ pc = "dpb_DeleteObjects"
  /\ lastCall' = Call("DeleteObjects", chunks[ci], Undef, Undef, FALSE)
  /\ iterObs' = Counted(iterObs, "DeleteObjects", FALSE)
  /\ cbcObs' = [cbcObs EXCEPT !.batches = @ + 1, !.failed = TRUE]
  /\ dpbObs' = [dpbObs EXCEPT !.batchCalls = @ + 1, !.batchFails = @ + 1]
  /\ pc' = "unhandled"
  /\ UNCHANGED << dpbFrame, stack, dpbVars >>

\* The batch call throws (MalformedXML or anything else): both branches of
\* the catch hand the chunk to deletePageOneByOne.
DpbDeleteObjectsFail ==
  /\ pc = "dpb_DeleteObjects"
  /\ lastCall' = Call("DeleteObjects", chunks[ci], Undef, Undef, FALSE)
  /\ iterObs' = Counted(iterObs, "DeleteObjects", FALSE)
  /\ cbcObs' = [cbcObs EXCEPT !.batches = @ + 1, !.failed = TRUE,
                              !.deleted = TRUE]
  /\ dpbObs' = [dpbObs EXCEPT !.batchCalls = @ + 1, !.batchFails = @ + 1,
                              !.fallback = "running",
                              !.fbLen = Len(chunks[ci]),
                              !.chunkSingles = 0, !.singleFails = 0,
                              !.skipLog = 0]
  /\ oi' = 1
  /\ totalSkipped' = 0
  /\ pc' = "dpo_DeleteObjects"
  /\ UNCHANGED << dpbFrame, stack, objects, ci >>

\* A faulty fallback loop that is left after its first object.
AdvanceObjectOnce(skipped, obs) ==
  /\ AdvanceChunk([obs EXCEPT !.skipLog = skipped, !.fallback = "finished"])
  /\ oi' = 1
  /\ totalSkipped' = 0

\* The `for (const obj of objects)` loop of deletePageOneByOne moves on;
\* after the last object the skip total is logged (when positive) and the
\* fallback returns into the chunk loop.
AdvanceObject(skipped, obs) ==
  IF oi + 1 > Len(chunks[ci])
  THEN /\ AdvanceChunk([obs EXCEPT !.skipLog = skipped,
                                   !.fallback = "finished"])
       /\ oi' = 1
       /\ totalSkipped' = 0
  ELSE /\ pc' = "dpo_DeleteObjects"
       /\ dpbObs' = obs
       /\ oi' = oi + 1
       /\ totalSkipped' = skipped
       /\ UNCHANGED << stack, objects, ci >>

\* One single-identifier DeleteObjects call succeeds.
DpoDeleteObjectsOk ==
  /\ pc = "dpo_DeleteObjects"
  /\ bucketName \in live
  /\ lastCall' = Call("DeleteObjects", << chunks[ci][oi] >>, Undef, Undef,
                     TRUE)
  /\ iterObs' = Counted(iterObs, "DeleteObjects", TRUE)
  /\ AdvanceObject(totalSkipped, [dpbObs EXCEPT !.chunkSingles = @ + 1])
  /\ UNCHANGED << dpbFrame, cbcObs >>

\* A faulty fallback that gives up on the chunk at the first failing call.
DpoDeleteObjectsFailStops ==
  /\ pc = "dpo_DeleteObjects"
  /\ totalSkipped < MaxSkipped
  /\ lastCall' = Call("DeleteObjects", << chunks[ci][oi] >>, Undef, Undef,
                     FALSE)
  /\ iterObs' = Counted(iterObs, "DeleteObjects", FALSE)
  /\ AdvanceChunk([dpbObs EXCEPT !.chunkSingles = @ + 1,
                                 !.singleFails = @ + 1,
                                 !.skipLog = totalSkipped + 1,
                                 !.fallback = "finished"])
  /\ oi' = 1
  /\ totalSkipped' = 0
  /\ UNCHANGED << dpbFrame, cbcObs >>

\* One single-identifier call throws: the catch counts it and goes on.
DpoDeleteObjectsFail ==
  /\ pc = "dpo_DeleteObjects"
  /\ totalSkipped < MaxSkipped
  /\ lastCall' = Call("DeleteObjects", << chunks[ci][oi] >>, Undef, Undef,
                     FALSE)
  /\ iterObs' = Counted(iterObs, "DeleteObjects", FALSE)
  /\ AdvanceObject(totalSkipped + 1,
                   [dpbObs EXCEPT !.chunkSingles = @ + 1,
                                  !.singleFails = @ + 1])
  /\ UNCHANGED << dpbFrame, cbcObs >>

\* ------------------------------------------------- clearBucketContents
\* What a step of clearBucketContents / clearMultipartUploads leaves alone.
cbcFrame == << otherScripts, mainVars, live, limits, cfnVars, cfnObs >>

\* The continuation token the provider hands out with its n-th page.
Tok(prefix, n) == prefix \o ToString(n)

\* One entry of a listing page; Key 0 stands for a missing (falsy) key.
Entry(key, versionId) ==
  [Key |-> key, VersionId |-> versionId, IsLatest |-> FALSE]

\* The Versions and DeleteMarkers of a listing page with `len` entries,
\* numbered in listing order, of which the `keyless` ones carry no key.
PageBody(len, keyless) ==
  LET nv == (len + 1) \div 2
      key(i) == IF i \in keyless THEN 0 ELSE i
  IN  [Versions |-> [i \in 1..nv |-> Entry(key(i), "v")],
       DeleteMarkers |-> [i \in 1..(len - nv) |-> Entry(key(nv + i), "d")]]

\* The listing pages the provider may answer with: every length up to
\* the provider's limit, all entries keyed, or the first or all keyless.
PageBodies ==
  { PageBody(len, {}) : len \in 0..limits.len }
    \cup { PageBody(len, {1}) : len \in 1..limits.len }
    \cup { PageBody(len, 1..len) : len \in 1..limits.len }

\* The marker pairs of the n-th page of a chain: a page short of the
\* chain bound may carry continuation markers, the last one carries none.
MarkerPairs(n) ==
  { << Undef, Undef >>, << "", "" >> }
    \cup (IF n < limits.pages
          THEN { << Tok("k", n), Tok("v", n) >>, << Tok("k", n), Undef >>,
                 << "", Tok("v", n) >> }
          ELSE {})

NoPage == [Versions |-> << >>, DeleteMarkers |-> << >>,
           NextKeyMarker |-> Undef, NextVersionIdMarker |-> Undef]

\* A faulty test that takes every entry of the page.
HasKeyAlways(e) == TRUE

\* `if (v.Key)`
HasKey(e) == e.Key # 0

Identifier(e) == [Key |-> e.Key, VersionId |-> e.VersionId]

RECURSIVE Keyed(_)
Keyed(entries) ==
  IF entries = << >> THEN << >>
  ELSE (IF HasKey(Head(entries)) THEN << Identifier(Head(entries)) >>
        ELSE << >>) \o Keyed(Tail(entries))

\* clearBucketContents' objectsToDelete: the keyed versions, then the
\* keyed delete markers, of the page (`page.Versions || []`).
ObjectsToDelete(pg) == Keyed(pg.Versions) \o Keyed(pg.DeleteMarkers)

\* clearBucketContents is called right after the provider call of this
\* step; `ret` is where its caller continues.
CallClearBucketContents(ret) ==
  /\ pc' = "cbc_ListObjectVersions"
  /\ stack' = << ret >> \o stack
  /\ nextKeyMarker' = Undef
  /\ nextVersionIdMarker' = Undef
  /\ page' = NoPage
  /\ cbcObs' = NoCbcObs
  /\ iterObs' = [Counted(iterObs, lastCall'.op, lastCall'.ok)
                   EXCEPT !.clears = @ + 1]

\* ListObjectVersions answers with a page: its identifiers go to
\* deletePageBatch.
CbcListOk ==
  /\ pc = "cbc_ListObjectVersions"
  /\ bucketName \in live
  /\ \E body \in PageBodies, mk \in MarkerPairs(cbcObs.served + 1) :
       LET pg == [Versions |-> body.Versions,
                  DeleteMarkers |-> body.DeleteMarkers,
                  NextKeyMarker |-> mk[1], NextVersionIdMarker |-> mk[2]]
       IN  /\ page' = pg
           /\ objects' = ObjectsToDelete(pg)
           /\ cbcObs' = [cbcObs EXCEPT
                  !.lists = @ + 1, !.served = @ + 1,
                  !.lastMarkers = mk,
                  !.nonEmptyPages =
                     @ + (IF ObjectsToDelete(pg) = << >> THEN 0 ELSE 1),
                  !.terminal = @ + (IF Truthy(mk[1]) \/ Truthy(mk[2])
                                    THEN 0 ELSE 1)]
  /\ iterObs' = Counted(iterObs, "ListObjectVersions", TRUE)
  /\ lastCall' = Call("ListObjectVersions", << >>, nextKeyMarker,
                     nextVersionIdMarker, TRUE)
  /\ pc' = "dpb_entry"
  /\ stack' = << "cbc_afterBatch" >> \o stack
  /\ UNCHANGED << cbcFrame, mpuVars, nextKeyMarker, nextVersionIdMarker,
                  ci, oi, totalSkipped, dpbObs >>

\* A faulty catch block that returns from clearBucketContents at once.
CbcListFailReturns ==
  /\ pc = "cbc_ListObjectVersions"
  /\ lastCall' = Call("ListObjectVersions", << >>, nextKeyMarker,
                     nextVersionIdMarker, FALSE)
  /\ cbcObs' = [cbcObs EXCEPT !.lists = @ + 1, !.listFailed = TRUE,
                              !.failedAfterPages = cbcObs.served > 0,
                              !.failed = TRUE, !.returned = TRUE]
  /\ iterObs' = Counted(iterObs, "ListObjectVersions", FALSE)
  /\ Return
  /\ nextKeyMarker' = Undef
  /\ nextVersionIdMarker' = Undef
  /\ UNCHANGED << cbcFrame, page, dpbVars, mpuVars, dpbObs >>

\* ListObjectVersions throws: the catch breaks out of the listing loop.
CbcListFail ==
  /\ pc = "cbc_ListObjectVersions"
  /\ lastCall' = Call("ListObjectVersions", << >>, nextKeyMarker,
                     nextVersionIdMarker, FALSE)
  /\ cbcObs' = [cbcObs EXCEPT !.lists = @ + 1, !.listFailed = TRUE,
                              !.failedAfterPages = cbcObs.served > 0,
                              !.failed = TRUE]
  /\ iterObs' = Counted(iterObs, "ListObjectVersions", FALSE)
  /\ pc' = "cbc_PutBucketVersioning"
  /\ nextKeyMarker' = Undef
  /\ nextVersionIdMarker' = Undef
  /\ UNCHANGED << cbcFrame, stack, page, dpbVars, mpuVars, dpbObs >>

\* A faulty loop exit that looks at the key marker only.
CbcAfterBatchKeyMarkerOnly ==
  /\ pc = "cbc_afterBatch"
  /\ LET km == OrUndefined(page.NextKeyMarker)
         vm == OrUndefined(page.NextVersionIdMarker)
     IN  IF ~Truthy(km)
         THEN /\ pc' = "cbc_PutBucketVersioning"
              /\ nextKeyMarker' = Undef
              /\ nextVersionIdMarker' = Undef
         ELSE /\ pc' = "cbc_ListObjectVersions"
              /\ nextKeyMarker' = km
              /\ nextVersionIdMarker' = vm
  /\ page' = NoPage
  /\ dpbObs' = NoDpbObs
  /\ UNCHANGED << cbcFrame, stack, dpbVars, mpuVars, lastCall, cbcObs,
                  iterObs >>

\* deletePageBatch has returned: the markers of the page decide whether
\* the loop lists again or ends.
CbcAfterBatch ==
  /\ pc = "cbc_afterBatch"
  /\ LET km == OrUndefined(page.NextKeyMarker)
         vm == OrUndefined(page.NextVersionIdMarker)
     IN  IF ~Truthy(km) /\ ~Truthy(vm)
         THEN /\ pc' = "cbc_PutBucketVersioning"
              /\ nextKeyMarker' = Undef
              /\ nextVersionIdMarker' = Undef
         ELSE /\ pc' = "cbc_ListObjectVersions"
              /\ nextKeyMarker' = km
              /\ nextVersionIdMarker' = vm
  /\ page' = NoPage
  /\ dpbObs' = NoDpbObs
  /\ UNCHANGED << cbcFrame, stack, dpbVars, mpuVars, lastCall, cbcObs,
                  iterObs >>

\* clearMultipartUploads is entered (the last statement of
\* clearBucketContents).
EnterClearMultipartUploads ==
  /\ pc' = "mpu_ListMultipartUploads"
  /\ mpuKeyMarker' = Undef
  /\ mpuUploadIdMarker' = Undef

\* A faulty suspension whose failure ends clearBucketContents.
CbcPutBucketVersioningFailReturns ==
  /\ pc = "cbc_PutBucketVersioning"
  /\ \E ok \in {TRUE, FALSE} :
       /\ ok => bucketName \in live
       /\ lastCall' = Call("PutBucketVersioning", << >>, Undef, Undef, ok)
       /\ iterObs' = Counted(iterObs, "PutBucketVersioning", ok)
  /\ IF lastCall'.ok
     THEN /\ cbcObs' = [LoopForgotten(cbcObs) EXCEPT !.puts = @ + 1]
          /\ EnterClearMultipartUploads
          /\ stack' = stack
     ELSE /\ cbcObs' = [LoopForgotten(cbcObs) EXCEPT
                          !.puts = @ + 1, !.failed = TRUE, !.returned = TRUE]
          /\ Return
          /\ UNCHANGED << mpuKeyMarker, mpuUploadIdMarker >>
  /\ UNCHANGED << cbcFrame, cbcVars, dpbVars, result, ui, dpbObs >>

\* PutBucketVersioning(Suspended): its failure is ignored.
CbcPutBucketVersioning ==
  /\ pc = "cbc_PutBucketVersioning"
  /\ \E ok \in {TRUE, FALSE} :
       /\ ok => bucketName \in live
       /\ lastCall' = Call("PutBucketVersioning", << >>, Undef, Undef, ok)
       /\ iterObs' = Counted(iterObs, "PutBucketVersioning", ok)
  /\ cbcObs' = [LoopForgotten(cbcObs) EXCEPT
                  !.puts = @ + 1, !.failed = @ \/ ~lastCall'.ok]
  /\ EnterClearMultipartUploads
  /\ UNCHANGED << cbcFrame, stack, cbcVars, dpbVars, result, ui, dpbObs >>

\* ---------------------------------------------- clearMultipartUploads
Upload(key, uploadId) == [Key |-> key, UploadId |-> uploadId]

\* The upload listings the provider may answer with: every length up to
\* the provider's limit, complete, or with the first upload lacking its key, or
\* the last one lacking its upload id (0 stands for a missing field).
UploadLists ==
  { [i \in 1..len |-> Upload(i, i)] : len \in 0..limits.len }
    \cup { [i \in 1..len |-> Upload(IF i = 1 THEN 0 ELSE i, i)] :
             len \in 1..limits.len }
    \cup { [i \in 1..len |-> Upload(i, IF i = len THEN 0 ELSE i)] :
             len \in 1..limits.len }

\* `upload.Key && upload.UploadId`
Abortable(u) == u.Key # 0 /\ u.UploadId # 0

NoResult == [Uploads |-> << >>, IsTruncated |-> FALSE,
             NextKeyMarker |-> Undef, NextUploadIdMarker |-> Undef]

\* The index of the first abortable upload at or after `from`, or one
\* past the end: the uploads in between are passed over without a call.
RECURSIVE NextAbortable(_, _)
NextAbortable(uploads, from) ==
  IF from > Len(uploads) \/ Abortable(uploads[from])
  THEN from
  ELSE NextAbortable(uploads, from + 1)

\* The upload loop of one listing is over: list again when the listing
\* was truncated, else clearMultipartUploads and, with it,
\* clearBucketContents return.
MpuAfterUploads(res, obs) ==
  IF res.IsTruncated
  THEN /\ pc' = "mpu_ListMultipartUploads"
       /\ mpuKeyMarker' = res.NextKeyMarker
       /\ mpuUploadIdMarker' = res.NextUploadIdMarker
       /\ stack' = stack
       /\ cbcObs' = obs
  ELSE /\ Return
       /\ mpuKeyMarker' = Undef
       /\ mpuUploadIdMarker' = Undef
       /\ cbcObs' = [obs EXCEPT !.returned = TRUE]

\* The upload loop goes to the abortable upload at or after `from`.
MpuGoto(res, from, obs) ==
  LET next == NextAbortable(res.Uploads, from)
  IN  IF next > Len(res.Uploads)
      THEN /\ MpuAfterUploads(res, obs)
           /\ result' = NoResult
           /\ ui' = 1
      ELSE /\ pc' = "mpu_AbortMultipartUpload"
           /\ result' = res
           /\ ui' = next
           /\ cbcObs' = obs
           /\ UNCHANGED << stack, mpuKeyMarker, mpuUploadIdMarker >>

\* The truncation flag and markers of the n-th upload listing of a chain.
UploadCursors(n) ==
  { << FALSE, Undef, Undef >> }
    \cup (IF n < limits.pages
          THEN { << TRUE, Tok("k", n), Tok("u", n) >>,
                 << TRUE, Undef, Undef >> }
          ELSE {})

\* ListMultipartUploads answers: each abortable upload is aborted in turn.
MpuListOk ==
  /\ pc = "mpu_ListMultipartUploads"
  /\ bucketName \in live
  /\ lastCall' = Call("ListMultipartUploads", << >>, mpuKeyMarker,
                     mpuUploadIdMarker, TRUE)
  /\ iterObs' = Counted(iterObs, "ListMultipartUploads", TRUE)
  /\ \E uploads \in UploadLists, cur \in UploadCursors(cbcObs.mpuServed + 1) :
       MpuGoto([Uploads |-> uploads, IsTruncated |-> cur[1],
                NextKeyMarker |-> cur[2], NextUploadIdMarker |-> cur[3]],
               1,
               [cbcObs EXCEPT !.mpuLists = @ + 1, !.mpuServed = @ + 1,
                              !.mpuTerminal = @ + (IF cur[1] THEN 0 ELSE 1)])
  /\ UNCHANGED << cbcFrame, cbcVars, dpbVars, dpbObs >>

\* ListMultipartUploads throws: the catch breaks out of the loop.
MpuListFail ==
  /\ pc = "mpu_ListMultipartUploads"
  /\ lastCall' = Call("ListMultipartUploads", << >>, mpuKeyMarker,
                     mpuUploadIdMarker, FALSE)
  /\ iterObs' = Counted(iterObs, "ListMultipartUploads", FALSE)
  /\ Return
  /\ mpuKeyMarker' = Undef
  /\ mpuUploadIdMarker' = Undef
  /\ cbcObs' = [cbcObs EXCEPT !.mpuLists = @ + 1, !.returned = TRUE,
                              !.mpuListFailed = TRUE, !.failed = TRUE]
  /\ UNCHANGED << cbcFrame, cbcVars, dpbVars, dpbObs, result, ui >>

\* A faulty abort whose failure leaves the upload loop.
MpuAbortMultipartUploadFailBreaks ==
  /\ pc = "mpu_AbortMultipartUpload"
  /\ \E ok \in {TRUE, FALSE} :
       /\ ok => bucketName \in live
       /\ lastCall' = Call("AbortMultipartUpload", << result.Uploads[ui] >>,
                          Undef, Undef, ok)
       /\ iterObs' = Counted(iterObs, "AbortMultipartUpload", ok)
  /\ MpuGoto(result,
             IF lastCall'.ok THEN ui + 1 ELSE Len(result.Uploads) + 1,
             [cbcObs EXCEPT !.failed = @ \/ ~lastCall'.ok])
  /\ UNCHANGED << cbcFrame, cbcVars, dpbVars, dpbObs >>

\* AbortMultipartUpload of the current upload: a failure is only logged.
MpuAbortMultipartUpload ==
  /\ pc = "mpu_AbortMultipartUpload"
  /\ \E ok \in {TRUE, FALSE} :
       /\ ok => bucketName \in live
       /\ lastCall' = Call("AbortMultipartUpload", << result.Uploads[ui] >>,
                          Undef, Undef, ok)
       /\ iterObs' = Counted(iterObs, "AbortMultipartUpload", ok)
  /\ MpuGoto(result, ui + 1,
             [cbcObs EXCEPT !.failed = @ \/ ~lastCall'.ok])
  /\ UNCHANGED << cbcFrame, cbcVars, dpbVars, dpbObs >>

\* ------------------------------------------- deleteCloudFormationStack
\* What a step of deleteCloudFormationStack leaves alone.
cfnFrame == << otherScripts, mainArgv, exitCode, bucketArray, processed, bi,
               stackName, wasDeleted,
               nonDeletedBuckets, limits, dpbVars, mpuVars, dpbObs >>

\* deleteCloudFormationStack returns.
CfnReturn(obs) ==
  /\ Return
  /\ protectionStatus' = "False"
  /\ cfnObs' = [obs EXCEPT !.returned = TRUE]

\* nonDeletedStacks.push(stackName); return
CfnRecordAndReturn(obs) ==
  /\ nonDeletedStacks' = Append(nonDeletedStacks, stackName)
  /\ CfnReturn([obs EXCEPT !.recorded = @ + 1])

\* The first DescribeStacks reads the termination protection; a failure
\* (or a response without stacks) leaves the status "False".
CfnDescribeStacks1 ==
  /\ pc = "cfn_DescribeStacks1"
  /\ \E ok \in {TRUE, FALSE}, enabled \in {TRUE, FALSE} :
       /\ ~ok => ~enabled
       /\ lastCall' = Call("DescribeStacks", << >>, Undef, Undef, ok)
       /\ iterObs' = Counted(iterObs, "DescribeStacks", ok)
       /\ protectionStatus' = IF ok /\ enabled THEN "True" ELSE "False"
       /\ pc' = IF ok /\ enabled THEN "cfn_UpdateTerminationProtection"
                ELSE "cfn_DescribeStacks2"
  /\ UNCHANGED << cfnFrame, stack, live, cbcVars, nonDeletedStacks, cbcObs,
                  cfnObs >>

\* UpdateTerminationProtection succeeds: on to the existence check.
CfnUpdateTerminationProtectionOk ==
  /\ pc = "cfn_UpdateTerminationProtection"
  /\ lastCall' = Call("UpdateTerminationProtection", << >>, Undef, Undef,
                     TRUE)
  /\ iterObs' = Counted(iterObs, "UpdateTerminationProtection", TRUE)
  /\ pc' = "cfn_DescribeStacks2"
  /\ UNCHANGED << cfnFrame, stack, live, cfnVars, cbcVars, nonDeletedStacks,
                  cbcObs, cfnObs >>

\* A faulty catch block that goes on with the deletion.
CfnUpdateTerminationProtectionFailIgnored ==
  /\ pc = "cfn_UpdateTerminationProtection"
  /\ lastCall' = Call("UpdateTerminationProtection", << >>, Undef, Undef,
                     FALSE)
  /\ iterObs' = Counted(iterObs, "UpdateTerminationProtection", FALSE)
  /\ cfnObs' = [cfnObs EXCEPT !.protectionFailed = TRUE]
  /\ pc' = "cfn_DescribeStacks2"
  /\ UNCHANGED << cfnFrame, stack, live, cfnVars, cbcVars, nonDeletedStacks,
                  cbcObs >>

\* UpdateTerminationProtection throws: the stack is recorded, no deletion.
CfnUpdateTerminationProtectionFail ==
  /\ pc = "cfn_UpdateTerminationProtection"
  /\ lastCall' = Call("UpdateTerminationProtection", << >>, Undef, Undef,
                     FALSE)
  /\ iterObs' = Counted(iterObs, "UpdateTerminationProtection", FALSE)
  /\ CfnRecordAndReturn([cfnObs EXCEPT !.protectionFailed = TRUE])
  /\ UNCHANGED << cfnFrame, live, cbcVars, cbcObs >>

\* The second DescribeStacks succeeds: the stack exists.
CfnDescribeStacks2Ok ==
  /\ pc = "cfn_DescribeStacks2"
  /\ lastCall' = Call("DescribeStacks", << >>, Undef, Undef, TRUE)
  /\ iterObs' = Counted(iterObs, "DescribeStacks", TRUE)
  /\ pc' = "cfn_DeleteStack1"
  /\ UNCHANGED << cfnFrame, stack, live, cfnVars, cbcVars, nonDeletedStacks,
                  cbcObs, cfnObs >>

\* A faulty existence check that records the stack it does not find.
CfnDescribeStacks2FailRecords ==
  /\ pc = "cfn_DescribeStacks2"
  /\ lastCall' = Call("DescribeStacks", << >>, Undef, Undef, FALSE)
  /\ iterObs' = Counted(iterObs, "DescribeStacks", FALSE)
  /\ CfnRecordAndReturn(cfnObs)
  /\ UNCHANGED << cfnFrame, live, cbcVars, cbcObs >>

\* The second DescribeStacks throws: stackExists = false, plain return.
CfnDescribeStacks2Fail ==
  /\ pc = "cfn_DescribeStacks2"
  /\ lastCall' = Call("DescribeStacks", << >>, Undef, Undef, FALSE)
  /\ iterObs' = Counted(iterObs, "DescribeStacks", FALSE)
  /\ CfnReturn(cfnObs)
  /\ UNCHANGED << cfnFrame, live, cbcVars, nonDeletedStacks, cbcObs >>

\* A faulty retry that does not clear the bucket contents first.
CfnFirstAttemptFailedNoClear(obs) ==
  /\ pc' = "cfn_DeleteStack2"
  /\ cbcObs' = NoCbcObs
  /\ iterObs' = Counted(iterObs, lastCall'.op, lastCall'.ok)
  /\ cfnObs' = [obs EXCEPT !.failedAttempts = @ + 1]
  /\ UNCHANGED << stack, cbcVars >>

\* The first attempt failed: clear the bucket contents, then retry.
CfnFirstAttemptFailed(obs) ==
  /\ CallClearBucketContents("cfn_DeleteStack2")
  /\ cfnObs' = [obs EXCEPT !.failedAttempts = @ + 1]

\* The first DeleteStack is accepted: wait for the deletion to complete.
CfnDeleteStack1Ok ==
  /\ pc = "cfn_DeleteStack1"
  /\ lastCall' = Call("DeleteStack", << >>, Undef, Undef, TRUE)
  /\ iterObs' = Counted(iterObs, "DeleteStack", TRUE)
  /\ cfnObs' = [cfnObs EXCEPT !.deleteStacks = @ + 1]
  /\ pc' = "cfn_Wait1"
  /\ UNCHANGED << cfnFrame, stack, live, cfnVars, cbcVars, nonDeletedStacks,
                  cbcObs >>

\* The first DeleteStack throws.
CfnDeleteStack1Fail ==
  /\ pc = "cfn_DeleteStack1"
  /\ lastCall' = Call("DeleteStack", << >>, Undef, Undef, FALSE)
  /\ CfnFirstAttemptFailed([cfnObs EXCEPT !.deleteStacks = @ + 1])
  /\ UNCHANGED << cfnFrame, live, cfnVars, nonDeletedStacks >>

\* The provider deleting a stack may delete the bucket the stack owns.
StackDeletionEffect == live' \in {live, live \ {bucketName}}

\* Why the provider may fail to delete a stack: the status reason of the
\* stack's latest event.
ExportInUse == "Cannot delete export E as it is in use by S"

StatusReasons == {ExportInUse, "Resource R is not empty"}

\* waitUntilStackDeleteComplete of the first attempt; a failure has its
\* reason, which the catch block does not look at.
CfnWait1 ==
  /\ pc = "cfn_Wait1"
  /\ StackDeletionEffect
  /\ \E ok \in {TRUE, FALSE}, why \in StatusReasons \cup {""} :
       /\ ok <=> why = ""
       /\ lastCall' = [Call("waitUntilStackDeleteComplete", << >>, Undef,
                           Undef, ok) EXCEPT !.reason = why]
       /\ IF ok
          THEN /\ CfnReturn(cfnObs)
               /\ iterObs' = Counted(iterObs, lastCall'.op, ok)
               /\ UNCHANGED << cbcVars, cbcObs >>
          ELSE /\ CfnFirstAttemptFailed(cfnObs)
               /\ UNCHANGED cfnVars
  /\ UNCHANGED << cfnFrame, nonDeletedStacks >>

\* The retry, entered when clearBucketContents has returned.
AtSecondAttempt(obs) ==
  [obs EXCEPT !.deleteStacks = @ + 1,
              !.cleared = @ + (IF cbcObs.returned THEN 1 ELSE 0)]

\* The second DeleteStack is accepted: wait again.
CfnDeleteStack2Ok ==
  /\ pc = "cfn_DeleteStack2"
  /\ lastCall' = Call("DeleteStack", << >>, Undef, Undef, TRUE)
  /\ iterObs' = Counted(iterObs, "DeleteStack", TRUE)
  /\ cfnObs' = AtSecondAttempt(cfnObs)
  /\ cbcObs' = NoCbcObs
  /\ pc' = "cfn_Wait2"
  /\ UNCHANGED << cfnFrame, stack, live, cfnVars, cbcVars,
                  nonDeletedStacks >>

\* The second DeleteStack throws: the final catch looks at the events.
CfnDeleteStack2Fail ==
  /\ pc = "cfn_DeleteStack2"
  /\ lastCall' = Call("DeleteStack", << >>, Undef, Undef, FALSE)
  /\ iterObs' = Counted(iterObs, "DeleteStack", FALSE)
  /\ cfnObs' = [AtSecondAttempt(cfnObs) EXCEPT !.failedAttempts = @ + 1]
  /\ cbcObs' = NoCbcObs
  /\ pc' = "cfn_DescribeStackEvents"
  /\ UNCHANGED << cfnFrame, stack, live, cfnVars, cbcVars,
                  nonDeletedStacks >>

\* waitUntilStackDeleteComplete of the second attempt.
CfnWait2 ==
  /\ pc = "cfn_Wait2"
  /\ StackDeletionEffect
  /\ \E ok \in {TRUE, FALSE} :
       /\ lastCall' = Call("waitUntilStackDeleteComplete", << >>, Undef,
                          Undef, ok)
       /\ iterObs' = Counted(iterObs, "waitUntilStackDeleteComplete", ok)
       /\ IF ok
          THEN CfnReturn(cfnObs)
          ELSE /\ pc' = "cfn_DescribeStackEvents"
               /\ cfnObs' = [cfnObs EXCEPT !.failedAttempts = @ + 1]
               /\ UNCHANGED << stack, cfnVars >>
  /\ UNCHANGED << cfnFrame, cbcVars, nonDeletedStacks, cbcObs >>

\* DescribeStackEvents only feeds a log line (export in use), whether it
\* answers or throws; then the stack is recorded as undeleted.
CfnDescribeStackEvents ==
  /\ pc = "cfn_DescribeStackEvents"
  /\ \E ok \in {TRUE, FALSE} :
       /\ lastCall' = Call("DescribeStackEvents", << >>, Undef, Undef, ok)
       /\ iterObs' = Counted(iterObs, "DescribeStackEvents", ok)
  /\ CfnRecordAndReturn(cfnObs)
  /\ UNCHANGED << cfnFrame, live, cbcVars, cbcObs >>

\* -------------------------------------------------------- deleteBucket
\* What a step of deleteBucket leaves alone.
dbFrame == << otherScripts, mainArgv, exitCode, bucketArray, processed, bi,
              stackName, nonDeletedBuckets,
              nonDeletedStacks, limits, cfnVars, dpbVars, mpuVars, dpbObs >>

\* deleteBucket returns `value` to main.
DbReturn(value) ==
  /\ wasDeleted' = value
  /\ Return

\* getS3Client -> getBucketRegion: GetBucketLocation answers, the region
\* is `LocationConstraint || "us-east-1"`, never null.
DbGetBucketLocationOk ==
  /\ pc = "db_GetBucketLocation"
  /\ bucketName \in live
  /\ lastCall' = Call("GetBucketLocation", << >>, Undef, Undef, TRUE)
  /\ iterObs' = Counted(iterObs, "GetBucketLocation", TRUE)
  /\ cfnObs' = NoCfnObs
  /\ pc' = "db_HeadBucket"
  /\ UNCHANGED << dbFrame, stack, live, wasDeleted, cbcVars, cbcObs >>

\* A faulty deleteBucket that reports a bucket without client as not
\* deleted.
DbGetBucketLocationFailReturnsFalse ==
  /\ pc = "db_GetBucketLocation"
  /\ lastCall' = Call("GetBucketLocation", << >>, Undef, Undef, FALSE)
  /\ iterObs' = Counted(iterObs, "GetBucketLocation", FALSE)
  /\ cfnObs' = NoCfnObs
  /\ DbReturn(FALSE)
  /\ UNCHANGED << dbFrame, live, cbcVars, cbcObs >>

\* GetBucketLocation throws (NoSuchBucket or anything else): no client,
\* deleteBucket reports the bucket as already cleaned up.
DbGetBucketLocationFail ==
  /\ pc = "db_GetBucketLocation"
  /\ lastCall' = Call("GetBucketLocation", << >>, Undef, Undef, FALSE)
  /\ iterObs' = Counted(iterObs, "GetBucketLocation", FALSE)
  /\ cfnObs' = NoCfnObs
  /\ DbReturn(TRUE)
  /\ UNCHANGED << dbFrame, live, cbcVars, cbcObs >>

\* checkBucketExists: HeadBucket answers, the bucket is emptied next.
DbHeadBucketOk ==
  /\ pc = "db_HeadBucket"
  /\ bucketName \in live
  /\ lastCall' = Call("HeadBucket", << >>, Undef, Undef, TRUE)
  /\ CallClearBucketContents("db_DeleteBucket")
  /\ UNCHANGED << dbFrame, live, wasDeleted, cfnObs >>

\* HeadBucket throws: the bucket counts as already gone.
DbHeadBucketFail ==
  /\ pc = "db_HeadBucket"
  /\ lastCall' = Call("HeadBucket", << >>, Undef, Undef, FALSE)
  /\ iterObs' = Counted(iterObs, "HeadBucket", FALSE)
  /\ DbReturn(TRUE)
  /\ UNCHANGED << dbFrame, live, cbcVars, cbcObs, cfnObs >>

\* A faulty deleteBucket that returns false after a successful DeleteBucket.
DbDeleteBucketOkReturnsFalse ==
  /\ pc = "db_DeleteBucket"
  /\ bucketName \in live
  /\ lastCall' = Call("DeleteBucket", << >>, Undef, Undef, TRUE)
  /\ iterObs' = [Counted(iterObs, "DeleteBucket", TRUE)
                   EXCEPT !.deleteBucketOk = TRUE]
  /\ live' = live \ {bucketName}
  /\ cbcObs' = NoCbcObs
  /\ DbReturn(FALSE)
  /\ UNCHANGED << dbFrame, cbcVars, cfnObs >>

\* DeleteBucket answers: the bucket is gone.
DbDeleteBucketOk ==
  /\ pc = "db_DeleteBucket"
  /\ bucketName \in live
  /\ lastCall' = Call("DeleteBucket", << >>, Undef, Undef, TRUE)
  /\ iterObs' = [Counted(iterObs, "DeleteBucket", TRUE)
                   EXCEPT !.deleteBucketOk = TRUE]
  /\ live' = live \ {bucketName}
  /\ cbcObs' = NoCbcObs
  /\ DbReturn(TRUE)
  /\ UNCHANGED << dbFrame, cbcVars, cfnObs >>

\* DeleteBucket throws.
DbDeleteBucketFail ==
  /\ pc = "db_DeleteBucket"
  /\ lastCall' = Call("DeleteBucket", << >>, Undef, Undef, FALSE)
  /\ iterObs' = Counted(iterObs, "DeleteBucket", FALSE)
  /\ cbcObs' = NoCbcObs
  /\ DbReturn(FALSE)
  /\ UNCHANGED << dbFrame, live, cbcVars, cfnObs >>

\* ---------------------------------------------------------------- main
\* What a step of main leaves alone.
mainFrame == << otherScripts, mainArgv, nonDeletedStacks, live, limits,
                cfnVars, dpbVars, cbcVars, mpuVars, dpbObs, cbcObs, cfnObs >>

\* `const wasDeleted = await deleteBucket(bucketName)`
CallDeleteBucket ==
  /\ pc' = "db_GetBucketLocation"
  /\ stack' = << "main_afterDelete" >> \o stack

\* The names the model tells apart, as the characters of the command line.
NameOf(chars) ==
  IF chars = << "b", "1" >> THEN "b1"
  ELSE IF chars = << "b", "2" >> THEN "b2"
  ELSE IF chars = << >> THEN ""
  ELSE "other"

\* `bucketsArg.split(",").map((b) => b.trim())`
ParsedBucketArray(bucketsArg) ==
  [i \in 1..Len(split(bucketsArg, ",")) |->
     NameOf(trim(split(bucketsArg, ",")[i]))]

\* A faulty check that only refuses a command line without arguments.
MainEntryAnyArguments ==
  /\ pc = "main_entry"
  /\ IF Len(mainArgv) = 0
     THEN /\ pc' = "exit"
          /\ exitCode' = << 1 >>
          /\ UNCHANGED bucketArray
     ELSE /\ pc' = "main_loop"
          /\ bucketArray' = ParsedBucketArray(mainArgv[1])
          /\ UNCHANGED exitCode
  /\ UNCHANGED << mainFrame, processed, stack, bi, stackName, wasDeleted,
                  nonDeletedBuckets, lastCall, iterObs >>

\* The start of main: usage and exit code 1 unless there is exactly one
\* argument, else the bucket names are taken from it.
MainEntry ==
  /\ pc = "main_entry"
  /\ IF Len(mainArgv) # 1
     THEN /\ pc' = "exit"
          /\ exitCode' = << 1 >>
          /\ UNCHANGED bucketArray
     ELSE /\ pc' = "main_loop"
          /\ bucketArray' = ParsedBucketArray(mainArgv[1])
          /\ UNCHANGED exitCode
  /\ UNCHANGED << mainFrame, processed, stack, bi, stackName, wasDeleted,
                  nonDeletedBuckets, lastCall, iterObs >>

\* The head of `for (const bucketName of bucketArray)`: the summary after
\* the last name, `continue` on an empty name, else a new iteration.
MainLoop ==
  /\ pc = "main_loop"
  /\ IF bi > Len(bucketArray)
     THEN /\ pc' = "done"
          /\ exitCode' = << 0 >>
          /\ UNCHANGED << bi, iterObs, processed >>
     ELSE IF bucketName = ""
     THEN /\ pc' = "main_loop"
          /\ bi' = bi + 1
          /\ UNCHANGED << iterObs, processed, exitCode >>
     ELSE /\ pc' = "main_GetBucketLocation"
          /\ bi' = bi
          /\ processed' = Append(processed, bucketName)
          /\ iterObs' = [NoIterObs EXCEPT
                           !.name = bucketName,
                           !.existed = bucketName \in live,
                           !.stacksBefore = Len(nonDeletedStacks)]
          /\ UNCHANGED exitCode
  /\ stackName' = Undef
  /\ wasDeleted' = FALSE
  /\ lastCall' = NoCall
  /\ UNCHANGED << mainFrame, bucketArray, stack, nonDeletedBuckets >>

\* Step (a), getS3Client: GetBucketLocation answers.
MainGetBucketLocationOk ==
  /\ pc = "main_GetBucketLocation"
  /\ bucketName \in live
  /\ lastCall' = Call("GetBucketLocation", << >>, Undef, Undef, TRUE)
  /\ iterObs' = Counted(iterObs, "GetBucketLocation", TRUE)
  /\ pc' = "main_HeadBucket"
  /\ UNCHANGED << mainFrame, exitCode, bucketArray, processed,
                  stack, bi, stackName, wasDeleted,
                  nonDeletedBuckets >>

\* GetBucketLocation throws: no client, straight to deleteBucket.
MainGetBucketLocationFail ==
  /\ pc = "main_GetBucketLocation"
  /\ lastCall' = Call("GetBucketLocation", << >>, Undef, Undef, FALSE)
  /\ iterObs' = Counted(iterObs, "GetBucketLocation", FALSE)
  /\ CallDeleteBucket
  /\ UNCHANGED << mainFrame, exitCode, bucketArray, processed,
                  bi, stackName, wasDeleted, nonDeletedBuckets >>

\* Step (b), checkBucketExists: HeadBucket answers.
MainHeadBucketOk ==
  /\ pc = "main_HeadBucket"
  /\ bucketName \in live
  /\ lastCall' = Call("HeadBucket", << >>, Undef, Undef, TRUE)
  /\ iterObs' = Counted(iterObs, "HeadBucket", TRUE)
  /\ pc' = "main_GetBucketTagging"
  /\ UNCHANGED << mainFrame, exitCode, bucketArray, processed,
                  stack, bi, stackName, wasDeleted,
                  nonDeletedBuckets >>

\* HeadBucket throws: straight to deleteBucket.
MainHeadBucketFail ==
  /\ pc = "main_HeadBucket"
  /\ lastCall' = Call("HeadBucket", << >>, Undef, Undef, FALSE)
  /\ iterObs' = Counted(iterObs, "HeadBucket", FALSE)
  /\ CallDeleteBucket
  /\ UNCHANGED << mainFrame, exitCode, bucketArray, processed,
                  bi, stackName, wasDeleted, nonDeletedBuckets >>

\* The values the aws:cloudformation:stack-name tag may be read with:
\* no such tag, a tag without value, or a stack name.
StackTags == {Undef, "", "s1"}

\* Step (c): GetBucketTagging answers; a stack name sends main through
\* deleteCloudFormationStack before deleteBucket.
MainGetBucketTaggingOk ==
  /\ pc = "main_GetBucketTagging"
  /\ bucketName \in live
  /\ lastCall' = Call("GetBucketTagging", << >>, Undef, Undef, TRUE)
  /\ \E tag \in StackTags :
       IF Truthy(tag)
       THEN /\ stackName' = tag
            /\ pc' = "cfn_DescribeStacks1"
            /\ stack' = << "db_GetBucketLocation", "main_afterDelete" >>
                          \o stack
            /\ iterObs' = [Counted(iterObs, "GetBucketTagging", TRUE)
                             EXCEPT !.tagged = TRUE]
       ELSE /\ stackName' = Undef
            /\ CallDeleteBucket
            /\ iterObs' = Counted(iterObs, "GetBucketTagging", TRUE)
  /\ UNCHANGED << mainFrame, exitCode, bucketArray, processed,
                  bi, wasDeleted, nonDeletedBuckets >>

\* A faulty step (c) without its catch: the error ends main.
MainGetBucketTaggingFailRethrows ==
  /\ pc = "main_GetBucketTagging"
  /\ lastCall' = Call("GetBucketTagging", << >>, Undef, Undef, FALSE)
  /\ iterObs' = Counted(iterObs, "GetBucketTagging", FALSE)
  /\ pc' = "exit"
  /\ exitCode' = << 1 >>
  /\ UNCHANGED << mainFrame, bucketArray, processed, stack, bi, stackName,
                  wasDeleted, nonDeletedBuckets >>

\* GetBucketTagging throws: ignored, no stack.
MainGetBucketTaggingFail ==
  /\ pc = "main_GetBucketTagging"
  /\ lastCall' = Call("GetBucketTagging", << >>, Undef, Undef, FALSE)
  /\ iterObs' = Counted(iterObs, "GetBucketTagging", FALSE)
  /\ CallDeleteBucket
  /\ UNCHANGED << mainFrame, exitCode, bucketArray, processed,
                  bi, stackName, wasDeleted, nonDeletedBuckets >>

\* A faulty step 3 that also lists the bucket when its stack was recorded.
MainAfterDeleteStackAware ==
  /\ pc = "main_afterDelete"
  /\ LET kept == wasDeleted /\ Len(nonDeletedStacks) = iterObs.stacksBefore
     IN  /\ nonDeletedBuckets' = IF kept THEN nonDeletedBuckets
                                 ELSE Append(nonDeletedBuckets, bucketName)
         /\ iterObs' = [iterObs EXCEPT !.pushed = ~kept, !.finished = TRUE]
  /\ bi' = bi + 1
  /\ pc' = "main_loop"
  /\ UNCHANGED << mainFrame, exitCode, bucketArray, processed,
                  stack, stackName, wasDeleted, lastCall >>

\* deleteBucket has returned: `if (!wasDeleted) nonDeletedBuckets.push`,
\* and the loop goes to the next name.
MainAfterDelete ==
  /\ pc = "main_afterDelete"
  /\ nonDeletedBuckets' = IF wasDeleted THEN nonDeletedBuckets
                          ELSE Append(nonDeletedBuckets, bucketName)
  /\ iterObs' = [iterObs EXCEPT !.pushed = ~wasDeleted, !.finished = TRUE]
  /\ bi' = bi + 1
  /\ pc' = "main_loop"
  /\ UNCHANGED << mainFrame, exitCode, bucketArray, processed,
                  stack, stackName, wasDeleted, lastCall >>

\* ------------------------------------------------ the clean-up driver
\* Names on the command line: "b1" exists when the run starts, "b2" does
\* not, and an empty name comes from a doubled or trailing comma.
BucketNames == {"b1", "b2", ""}

ExistingBuckets == {"b1"}

BucketArrays == UNION { [1..n -> BucketNames] : n \in 1..MaxBuckets }

\* A name as it is typed, blanks around it included.
Typed(name) ==
  IF name = "b1" THEN << " ", "b", "1" >>
  ELSE IF name = "b2" THEN << "b", "2", " " >>
  ELSE << >>

\* The names of an array typed with commas between them.
RECURSIVE Joined(_)
Joined(names) ==
  IF Len(names) = 1
  THEN Typed(names[1])
  ELSE Typed(names[1]) \o << "," >> \o Joined(Tail(names))

\* process.argv.slice(2): no argument, one argument that names up to
\* MaxBuckets buckets, or two arguments.
CommandLineArgs ==
  { << >> }
    \cup { << Joined(names) >> : names \in BucketArrays }
    \cup { << Joined(names), Joined(names) >> :
             names \in { << "b1" >>, << "b1", "b2" >> } }

\* No report generator is running.
ShIdle ==
  sh = [gen |-> "none", at |-> "idle", nextToken |-> Undef,
        findings |-> << >>, calls |-> << >>, responses |-> << >>,
        noSslRows |-> << >>, cfnTagRows |-> << >>]

\* categorizeBucket is not called.
CbIdle == cb = [at |-> "idle"]

\* apply-lifecycle.sh is not running.
AlIdle ==
  al = [at |-> "idle", args |-> << >>, bucket_array |-> << >>, i |-> 0,
        existing_buckets |-> << >>, failed_deletions |-> << >>,
        elapsed |-> 0, removed |-> {}, report |-> "", exitCode |-> << >>]

ToolsIdle == ShIdle /\ CbIdle /\ AlIdle

\* No call of callWithRetry on its own.
CwrIdle ==
  cwr = [at |-> "idle", retries |-> 0, delayMs |-> 0, attempt |-> 0,
         outcomes |-> << >>, slept |-> << >>, value |-> Undef,
         error |-> Undef]

\* schedule-clean-secrets-manager.ts is not running.
ScIdle ==
  /\ scArgv = << >>
  /\ scMains = << >>
  /\ scTasks = << >>

\* rename-secrets.ts is not running.
RsIdle ==
  /\ rsPc = "idle"
  /\ argv = << >>
  /\ secretNames = << >>
  /\ days = 0
  /\ tasks = << >>
  /\ created = {}
  /\ scheduled = {}

InitLocals ==
  /\ stack = << >>
  /\ exitCode = << >>
  /\ processed = << >>
  /\ bi = 1
  /\ stackName = Undef
  /\ wasDeleted = FALSE
  /\ nonDeletedBuckets = << >>
  /\ nonDeletedStacks = << >>
  /\ protectionStatus = "False"
  /\ ci = 1
  /\ oi = 1
  /\ totalSkipped = 0
  /\ nextKeyMarker = Undef
  /\ nextVersionIdMarker = Undef
  /\ page = NoPage
  /\ mpuKeyMarker = Undef
  /\ mpuUploadIdMarker = Undef
  /\ result = NoResult
  /\ ui = 1
  /\ lastCall = NoCall
  /\ dpbObs = NoDpbObs
  /\ cbcObs = NoCbcObs
  /\ cfnObs = NoCfnObs
  /\ iterObs = NoIterObs

Init ==
  /\ pc = "main_entry"
  /\ mainArgv \in CommandLineArgs
  /\ bucketArray = << >>
  /\ live = ExistingBuckets
  /\ limits = [len |-> MaxDriverPageLen, pages |-> MaxDriverPages]
  /\ objects = << >>
  /\ InitLocals
  /\ ToolsIdle
  /\ RsIdle
  /\ CwrIdle
  /\ ScIdle

Next ==
  \/ MainEntry
  \/ MainLoop
  \/ MainGetBucketLocationOk
  \/ MainGetBucketLocationFail
  \/ MainHeadBucketOk
  \/ MainHeadBucketFail
  \/ MainGetBucketTaggingOk
  \/ MainGetBucketTaggingFail
  \/ MainAfterDelete
  \/ CfnDescribeStacks1
  \/ CfnUpdateTerminationProtectionOk
  \/ CfnUpdateTerminationProtectionFail
  \/ CfnDescribeStacks2Ok
  \/ CfnDescribeStacks2Fail
  \/ CfnDeleteStack1Ok
  \/ CfnDeleteStack1Fail
  \/ CfnWait1
  \/ CfnDeleteStack2Ok
  \/ CfnDeleteStack2Fail
  \/ CfnWait2
  \/ CfnDescribeStackEvents
  \/ DbGetBucketLocationOk
  \/ DbGetBucketLocationFail
  \/ DbHeadBucketOk
  \/ DbHeadBucketFail
  \/ DbDeleteBucketOk
  \/ DbDeleteBucketFail
  \/ CbcListOk
  \/ CbcListFail
  \/ CbcAfterBatch
  \/ CbcPutBucketVersioning
  \/ MpuListOk
  \/ MpuListFail
  \/ MpuAbortMultipartUpload
  \/ DpbEntry
  \/ DpbDeleteObjectsOk
  \/ DpbDeleteObjectsFail
  \/ DpoDeleteObjectsOk
  \/ DpoDeleteObjectsFail

Spec == Init /\ [][Next]_vars

\* Where control is while objects are listed and deleted, and while
\* multipart uploads are listed and aborted.
ObjectSites ==
  {"cbc_ListObjectVersions", "dpb_entry", "dpb_DeleteObjects",
   "dpo_DeleteObjects", "cbc_afterBatch"}

MultipartSites == {"mpu_ListMultipartUploads", "mpu_AbortMultipartUpload"}

\* The elements of a sequence.
Range(seq) == { seq[i] : i \in 1..Len(seq) }

\* C4: a stack deletion is retried at most once: at most two DeleteStack
\* calls are issued; the second only after the first attempt failed and
\* clearBucketContents completed in between; when the second attempt fails
\* too the stack name is recorded as undeleted and there is no third call.
C4_RetryAtMostOnce ==
  /\ cfnObs.deleteStacks <= 2
  /\ cfnObs.failedAttempts <= 2
  /\ pc = "cfn_DeleteStack2"
       => /\ cfnObs.failedAttempts = 1
          /\ cfnObs.deleteStacks <= 1
          /\ cbcObs.returned
  /\ cfnObs.deleteStacks = 2
       => cfnObs.failedAttempts >= 1 /\ cfnObs.cleared = 1
  /\ cfnObs.failedAttempts = 2
       => \/ pc = "cfn_DescribeStackEvents"
          \/ /\ cfnObs.returned
             /\ cfnObs.recorded = 1
             /\ nonDeletedStacks # << >>
             /\ nonDeletedStacks[Len(nonDeletedStacks)] = stackName

\* Both attempts failed with a DeleteStack call each, the bucket was
\* emptied in between, and the stack was recorded.
C4_Witness ==
  /\ cfnObs.returned
  /\ cfnObs.deleteStacks = 2
  /\ cfnObs.failedAttempts = 2
  /\ cfnObs.cleared = 1
  /\ cfnObs.recorded = 1
  /\ stackName \in Range(nonDeletedStacks)

\* C12: when termination protection is enabled and the call disabling it
\* fails, deleteCloudFormationStack gives up: it records the stack name as
\* undeleted and returns, with no DeleteStack call and no emptying of the
\* bucket in that invocation.
C12_ProtectionFailureGivesUp ==
  /\ pc = "cfn_UpdateTerminationProtection"
       => /\ protectionStatus = "True"
          /\ cfnObs.deleteStacks = 0
          /\ iterObs.clears = 0
  /\ cfnObs.protectionFailed
       => /\ cfnObs.returned
          /\ pc = "db_GetBucketLocation"
          /\ cfnObs.recorded = 1
          /\ Len(nonDeletedStacks) = iterObs.stacksBefore + 1
          /\ nonDeletedStacks[Len(nonDeletedStacks)] = stackName
          /\ cfnObs.deleteStacks = 0
          /\ cfnObs.failedAttempts = 0
          /\ iterObs.clears = 0
          /\ lastCall.op = "UpdateTerminationProtection"

\* The call disabling the protection failed and the stack has been recorded.
C12_Witness ==
  /\ cfnObs.protectionFailed
  /\ cfnObs.returned
  /\ lastCall.op = "UpdateTerminationProtection"
  /\ ~lastCall.ok
  /\ nonDeletedStacks = << "s1" >>

\* The iteration of main is one for an existing bucket without stack tag
\* in which no provider call has failed.
UntaggedNoFailure ==
  /\ iterObs.existed
  /\ ~iterObs.tagged
  /\ ~iterObs.failed

\* The name of the iteration was not on the command line before.
FirstOccurrence ==
  \A j \in 1..Len(bucketArray) :
     bucketArray[j] = iterObs.name => j >= bi - 1

\* C6: an existing bucket without stack tag whose versions come in p pages
\* of at most 1000 entries, with no failure: exactly p ListObjectVersions
\* calls and one batch DeleteObjects call per non-empty page are issued,
\* then the bucket is deleted, and it is in neither failure list.
C6_UntaggedBucketCleanup ==
  /\ (UntaggedNoFailure /\ pc \in ObjectSites)
       => /\ iterObs.clears = 1
          /\ pc = "cbc_ListObjectVersions" => cbcObs.terminal = 0
          /\ cbcObs.lists = cbcObs.served
          /\ cbcObs.batches <= cbcObs.nonEmptyPages
  /\ (UntaggedNoFailure /\ pc = "cbc_PutBucketVersioning")
       => /\ iterObs.clears = 1
          /\ cbcObs.lists = cbcObs.served
          /\ cbcObs.terminal = 1
          /\ cbcObs.batches = cbcObs.nonEmptyPages
  /\ (UntaggedNoFailure /\ iterObs.finished)
       => /\ iterObs.clears = 1
          /\ iterObs.deleteBucketOk
          /\ iterObs.name \notin live
          /\ ~iterObs.pushed
          /\ Len(nonDeletedStacks) = iterObs.stacksBefore
          /\ FirstOccurrence => iterObs.name \notin Range(nonDeletedBuckets)

\* Two pages, both non-empty, were listed with two calls and deleted with
\* two batch calls.
C6_Witness ==
  /\ UntaggedNoFailure
  /\ pc = "cbc_PutBucketVersioning"
  /\ cbcObs.lists = 2
  /\ cbcObs.nonEmptyPages = 2
  /\ cbcObs.batches = 2

\* C7, as stated: a name of no bucket is detected at the existence check
\* and skipped with no further provider call after the failing check, and
\* is in neither failure list.  It fails: main still calls deleteBucket,
\* which looks the region up again.
C7_NoFurtherCalls ==
  (iterObs.finished /\ ~iterObs.existed)
    => /\ iterObs.locations = 1
       /\ ~iterObs.otherCalls
       /\ ~iterObs.pushed
       /\ Len(nonDeletedStacks) = iterObs.stacksBefore

\* C7, amended: a name of no bucket is detected by the failing
\* GetBucketLocation of main's region lookup; main then calls deleteBucket,
\* whose own region lookup issues GetBucketLocation once more, which fails
\* again; no other provider call is issued for the name, and it is in
\* neither failure list.
C7_OneRepeatedLookup ==
  (iterObs.finished /\ ~iterObs.existed)
    => /\ iterObs.locations = 2
       /\ ~iterObs.otherCalls
       /\ ~iterObs.pushed
       /\ Len(nonDeletedStacks) = iterObs.stacksBefore
       /\ FirstOccurrence => iterObs.name \notin Range(nonDeletedBuckets)

\* The iteration for the name "b2" of no bucket is over.
C7_Witness ==
  /\ iterObs.finished
  /\ ~iterObs.existed
  /\ iterObs.name = "b2"
  /\ iterObs.locations = 2
  /\ nonDeletedBuckets = << >>
  /\ nonDeletedStacks = << >>

\* ------------------------------------------- the batch deleter on its own
\* Object-identifier arrays handed to deletePageBatch: lengths around the
\* chunk size (the function accepts an array of any length).
BatchSizes == {0, 1, 2, CHUNK_SIZE - 1, CHUNK_SIZE, CHUNK_SIZE + 1,
               2 * CHUNK_SIZE + 1}

MkObjects(n) == [i \in 1..n |-> [Key |-> i, VersionId |-> "v"]]

InitBatch ==
  /\ pc = "dpb_entry"
  /\ mainArgv = << >>
  /\ bucketArray = << "b1" >>
  /\ live = {"b1"}
  /\ limits = [len |-> MaxPageLen, pages |-> MaxPages]
  /\ \E n \in BatchSizes : objects = MkObjects(n)
  /\ InitLocals
  /\ ToolsIdle
  /\ RsIdle
  /\ CwrIdle
  /\ ScIdle

NextBatch ==
  \/ DpbEntry
  \/ DpbDeleteObjectsOk
  \/ DpbDeleteObjectsFail
  \/ DpoDeleteObjectsOk
  \/ DpoDeleteObjectsFail

SpecBatch == InitBatch /\ [][NextBatch]_vars

\* The least number of chunks of at most b elements that hold a elements.
CeilDiv(a, b) == (a + b - 1) \div b

\* C1, as stated: with no failing call deletePageBatch issues exactly one
\* DeleteObjects call for N <= 1000 identifiers and ceil(N/1000) calls for
\* N > 1000.  It fails for N = 0, where the function returns without a call.
C1_OneCallUpToChunkSize ==
  (dpbObs.returned /\ dpbObs.batchFails = 0)
    => dpbObs.batchCalls = IF dpbObs.n <= CHUNK_SIZE
                           THEN 1
                           ELSE CeilDiv(dpbObs.n, CHUNK_SIZE)

\* C1, amended: with no failing call deletePageBatch issues exactly
\* ceil(N/1000) DeleteObjects calls for N identifiers: none for N = 0, one
\* for 1 <= N <= 1000, and one per chunk of 1000 above that.
C1_BatchCallCount ==
  (dpbObs.returned /\ dpbObs.batchFails = 0)
    => dpbObs.batchCalls = CeilDiv(dpbObs.n, CHUNK_SIZE)

\* Three chunks (1000, 1000, 1) were sent and none failed.
C1_Witness ==
  /\ dpbObs.returned
  /\ dpbObs.batchFails = 0
  /\ dpbObs.n = 2 * CHUNK_SIZE + 1
  /\ dpbObs.batchCalls = 3

\* C2: a failed batch call of a chunk of N identifiers is followed by
\* exactly N single-identifier DeleteObjects calls, one per identifier in
\* chunk order; a failing single call is counted as skipped and neither
\* stops the remaining single calls nor the later chunks.
C2_FallbackReplay ==
  /\ [](dpbObs.fallback = "finished"
          => /\ dpbObs.chunkSingles = dpbObs.fbLen
             /\ dpbObs.skipLog = dpbObs.singleFails)
  /\ [](pc = "dpo_DeleteObjects"
          => /\ dpbObs.fallback = "running"
             /\ dpbObs.fbLen = Len(chunks[ci])
             /\ dpbObs.chunkSingles < dpbObs.fbLen)
  /\ [](dpbObs.returned
          => dpbObs.batchCalls = CeilDiv(dpbObs.n, CHUNK_SIZE))
  /\ [][pc = "dpo_DeleteObjects"
          => /\ lastCall'.op = "DeleteObjects"
             /\ lastCall'.objs = << chunks[ci][dpbObs.chunkSingles + 1] >>
        ]_vars

\* A chunk of two was replayed as two single calls: the first failed and
\* was counted as skipped, the second was still issued and succeeded.
C2_Witness ==
  /\ dpbObs.returned
  /\ dpbObs.n = 2
  /\ dpbObs.batchFails = 1
  /\ dpbObs.fallback = "finished"
  /\ dpbObs.chunkSingles = 2
  /\ dpbObs.skipLog = 1
  /\ lastCall.ok

\* C10: deletePageBatch never raises: whatever fails, control stays inside
\* the function, which can always take its next step, until it returns
\* normally with every chunk sent.
C10_NeverRaises ==
  /\ pc \in {"dpb_entry", "dpb_DeleteObjects", "dpo_DeleteObjects", "done"}
  /\ pc # "done" => ENABLED NextBatch
  /\ pc = "done"
       => /\ dpbObs.returned
          /\ dpbObs.batchCalls = CeilDiv(dpbObs.n, CHUNK_SIZE)

\* deletePageBatch returned although the batch call and both fallback
\* calls failed.
C10_Witness ==
  /\ pc = "done"
  /\ dpbObs.returned
  /\ dpbObs.n = 2
  /\ dpbObs.batchFails = 1
  /\ dpbObs.singleFails = 2
  /\ ~lastCall.ok

\* ------------------------------------------- the bucket emptier on its own
\* clearBucketContents is entered for a bucket that exists or is gone.
InitClear ==
  /\ pc = "cbc_ListObjectVersions"
  /\ mainArgv = << >>
  /\ bucketArray = << "b1" >>
  /\ live \in {{}, {"b1"}}
  /\ limits = [len |-> MaxPageLen, pages |-> MaxPages]
  /\ objects = << >>
  /\ InitLocals
  /\ ToolsIdle
  /\ RsIdle
  /\ CwrIdle
  /\ ScIdle

NextClear ==
  \/ CbcListOk
  \/ CbcListFail
  \/ CbcAfterBatch
  \/ CbcPutBucketVersioning
  \/ MpuListOk
  \/ MpuListFail
  \/ MpuAbortMultipartUpload
  \/ DpbEntry
  \/ DpbDeleteObjectsOk
  \/ DpbDeleteObjectsFail
  \/ DpoDeleteObjectsOk
  \/ DpoDeleteObjectsFail

SpecClear == InitClear /\ [][NextClear]_vars

\* What a request carries for a marker of the previous page: the marker,
\* or nothing when the page had none (or an empty one).
Passed(marker) == IF marker \in {Undef, ""} THEN Undef ELSE marker

\* C3: pagination terminates: with no failing listing, a chain of k pages
\* that ends with a page without continuation markers is read with exactly
\* k ListObjectVersions calls, each passing the markers of the previous
\* page, and nothing is listed after the page without markers.
C3_PaginationTerminates ==
  /\ [](pc = "cbc_ListObjectVersions"
          => /\ cbcObs.terminal = 0
             /\ cbcObs.lists = cbcObs.served
             /\ cbcObs.lists < limits.pages)
  /\ []((pc = "cbc_PutBucketVersioning" /\ ~cbcObs.listFailed)
          => /\ cbcObs.lists = cbcObs.served
             /\ cbcObs.terminal = 1
             /\ cbcObs.lastMarkers[1] \in {Undef, ""}
             /\ cbcObs.lastMarkers[2] \in {Undef, ""})
  /\ [][pc = "cbc_ListObjectVersions"
          => /\ lastCall'.op = "ListObjectVersions"
             /\ lastCall'.km = Passed(cbcObs.lastMarkers[1])
             /\ lastCall'.vm = Passed(cbcObs.lastMarkers[2])
        ]_vars

\* A chain of three pages was read with three calls, the last of which
\* passed the markers of the second page.
C3_Witness ==
  /\ pc = "cbc_PutBucketVersioning"
  /\ ~cbcObs.listFailed
  /\ cbcObs.lists = 3
  /\ cbcObs.served = 3
  /\ lastCall.op = "ListObjectVersions"
  /\ lastCall.km # Undef
  /\ lastCall.vm # Undef

\* C8: clearBucketContents works in three phases in this order: the
\* ListObjectVersions/DeleteObjects calls, then exactly one
\* PutBucketVersioning call, then the multipart listing/abort calls; no
\* object call follows the suspension and no multipart call precedes it.
C8_PhaseOrder ==
  /\ pc \in ObjectSites \cup {"cbc_PutBucketVersioning"}
       => cbcObs.puts = 0 /\ cbcObs.mpuLists = 0
  /\ pc \in MultipartSites => cbcObs.puts = 1
  /\ cbcObs.returned => cbcObs.puts = 1 /\ cbcObs.mpuLists >= 1
  /\ lastCall.op \in {"ListMultipartUploads", "AbortMultipartUpload"}
       => pc \notin ObjectSites \cup {"cbc_PutBucketVersioning"}

\* Objects were deleted, versioning was suspended, uploads were listed
\* twice and aborted, and clearBucketContents returned.
C8_Witness ==
  /\ cbcObs.returned
  /\ cbcObs.deleted
  /\ cbcObs.puts = 1
  /\ cbcObs.mpuLists = 2
  /\ lastCall.op = "AbortMultipartUpload"

\* C9: a failing ListObjectVersions call, on the first or a later page,
\* ends the listing loop without raising: no listing or object delete
\* follows, versioning is still suspended, multipart uploads are still
\* listed, and clearBucketContents returns normally.
C9_ListFailureEndsLoop ==
  /\ cbcObs.listFailed => pc \notin ObjectSites
  /\ (cbcObs.listFailed /\ pc \in MultipartSites) => cbcObs.puts = 1
  /\ (cbcObs.listFailed /\ pc = "done")
       => /\ cbcObs.returned
          /\ cbcObs.puts = 1
          /\ cbcObs.mpuLists >= 1
  /\ (cbcObs.listFailed /\ pc # "done") => ENABLED NextClear
  /\ pc \in ObjectSites \cup MultipartSites
            \cup {"cbc_PutBucketVersioning", "done"}

\* The listing of a later page failed, and clearBucketContents went on to
\* suspend versioning and list the uploads, and returned.
C9_Witness ==
  /\ pc = "done"
  /\ cbcObs.returned
  /\ cbcObs.listFailed
  /\ cbcObs.failedAfterPages
  /\ cbcObs.puts = 1
  /\ cbcObs.mpuLists >= 1


\* The uploads of a listing at or after index `from` that have both a key
\* and an upload id.
AbortableFrom(uploads, from) ==
  { j \in from..Len(uploads) : uploads[j].Key # 0 /\ uploads[j].UploadId # 0 }

\* After position `from` of the listing `res`, the next state aborts the
\* first upload that has a key and an upload id, or, when none is left,
\* lists again if the listing was truncated and returns if it was not.
AbortsNextOrLeaves(res, from) ==
  IF AbortableFrom(res.Uploads, from) # {}
  THEN /\ pc' = "mpu_AbortMultipartUpload"
       /\ result' = res
       /\ ui' \in AbortableFrom(res.Uploads, from)
       /\ \A j \in AbortableFrom(res.Uploads, from) : ui' <= j
  ELSE IF res.IsTruncated
  THEN pc' = "mpu_ListMultipartUploads" /\ ~cbcObs'.returned
  ELSE pc' \notin MultipartSites /\ cbcObs'.returned

\* C11: clearMultipartUploads terminates: it lists page after page, tries
\* to abort every listed upload that has a key and an upload id, in
\* listing order, and stops at the first page that reports no continuation
\* or at a failing listing; a failed abort stops neither the remaining
\* aborts nor the pagination.  A page reports no continuation by
\* IsTruncated being false, which is what the loop looks at.
C11_MultipartTerminates ==
  /\ [](pc = "mpu_ListMultipartUploads" => cbcObs.mpuTerminal = 0)
  /\ [](pc \in MultipartSites
          => /\ ~cbcObs.mpuListFailed
             /\ cbcObs.mpuLists = cbcObs.mpuServed
             /\ cbcObs.mpuLists <= limits.pages
             /\ ENABLED NextClear)
  /\ [](pc = "mpu_AbortMultipartUpload"
          => /\ result.Uploads[ui].Key # 0
             /\ result.Uploads[ui].UploadId # 0)
  /\ []((cbcObs.returned /\ ~cbcObs.mpuListFailed)
          => cbcObs.mpuTerminal = 1 /\ cbcObs.mpuLists = cbcObs.mpuServed)
  /\ []((cbcObs.returned /\ cbcObs.mpuListFailed)
          => /\ cbcObs.mpuTerminal = 0
             /\ cbcObs.mpuLists = cbcObs.mpuServed + 1)
  /\ [][pc = "mpu_AbortMultipartUpload"
          => /\ lastCall'.op = "AbortMultipartUpload"
             /\ lastCall'.objs = << result.Uploads[ui] >>
             /\ AbortsNextOrLeaves(result, ui + 1)
        ]_vars
  /\ [][pc = "mpu_ListMultipartUploads"
          => /\ lastCall'.op = "ListMultipartUploads"
             /\ ~lastCall'.ok => cbcObs'.returned
             /\ (lastCall'.ok /\ pc' = "mpu_AbortMultipartUpload")
                  => AbortsNextOrLeaves(result', 1)
        ]_vars

\* On the second page of uploads the abort of the first upload failed and
\* the second upload is aborted next.
C11_Witness ==
  /\ pc = "mpu_AbortMultipartUpload"
  /\ cbcObs.mpuLists = 2
  /\ ui = 2
  /\ lastCall.op = "AbortMultipartUpload"
  /\ ~lastCall.ok
  /\ result.IsTruncated

\* ------------------------------------------------------ rename-secrets.ts
\* Strings that the script takes apart are sequences of characters.
Digits ==
  { "0", "1", "2", "3", "4", "5", "6", "7", "8", "9" }

LowerCase ==
  { "a", "b", "c", "d", "e", "f", "g", "h", "i", "j", "k", "l", "m", "n",
    "o", "p", "q", "r", "s", "t", "u", "v", "w", "x", "y", "z" }

UpperCase ==
  { "A", "B", "C", "D", "E", "F", "G", "H", "I", "J", "K", "L", "M", "N",
    "O", "P", "Q", "R", "S", "T", "U", "V", "W", "X", "Y", "Z" }

\* [0-9a-fA-F-]
HexOrDash == Digits \cup {"a", "b", "c", "d", "e", "f"}
                    \cup {"A", "B", "C", "D", "E", "F"} \cup {"-"}

\* [0-9A-Za-z]
AlphaNumeric == Digits \cup UpperCase \cup LowerCase

DigitValue(c) ==
  CASE c = "0" -> 0 [] c = "1" -> 1 [] c = "2" -> 2 [] c = "3" -> 3
    [] c = "4" -> 4 [] c = "5" -> 5 [] c = "6" -> 6 [] c = "7" -> 7
    [] c = "8" -> 8 [] c = "9" -> 9

\* The longest prefix of s made of characters of the class.
RECURSIVE ClassRun(_, _)
ClassRun(s, class) ==
  IF s # << >> /\ Head(s) \in class
  THEN << Head(s) >> \o ClassRun(Tail(s), class)
  ELSE << >>

StartsWith(s, literal) ==
  Len(s) >= Len(literal) /\ SubSeq(s, 1, Len(literal)) = literal

\* The value of a decimal numeral.
RECURSIVE DecimalValue(_)
DecimalValue(ds) ==
  IF ds = << >>
  THEN 0
  ELSE 10 * DecimalValue(SubSeq(ds, 1, Len(ds) - 1)) + DigitValue(ds[Len(ds)])

\* parseInt(s, 10) of an argument that is present: leading blanks and a
\* sign are passed over, the digits that follow are read, and NaN results
\* when there is none.
parseInt(s) ==
  LET t == TrimStart(s)
      signed == t # << >> /\ Head(t) \in {"-", "+"}
      ds == ClassRun(IF signed THEN Tail(t) ELSE t, Digits)
  IN  IF ds = << >>
      THEN [nan |-> TRUE, value |-> 0]
      ELSE [nan |-> FALSE,
            value |-> IF signed /\ Head(t) = "-"
                      THEN 0 - DecimalValue(ds)
                      ELSE DecimalValue(ds)]

\* The default of callWithRetry's `retries` parameter.
retries == 3

\* The recovery window parseArguments falls back to.
DefaultDays == 7

\* `parseInt(daysArg, 10) || 7`: an absent argument, NaN and 0 are falsy.
ParsedDays(args) ==
  IF Len(args) < 2
  THEN DefaultDays
  ELSE LET parsed == parseInt(args[2])
       IN  IF parsed.nan \/ parsed.value = 0
           THEN DefaultDays
           ELSE parsed.value

\* `secretNamesArg.split(",").map((name) => name.trim())`
ParsedSecretNames(args) ==
  LET parts == split(args[1], ",")
  IN  [i \in 1..Len(parts) |-> trim(parts[i])]

Lit_integrations ==
  << "i", "n", "t", "e", "g", "r", "a", "t", "i", "o", "n", "s", "/" >>

Lit_netsuite ==
  << "/", "n", "e", "t", "s", "u", "i", "t", "e", "/" >>

Lit_credentials ==
  << "/", "c", "r", "e", "d", "e", "n", "t", "i", "a", "l", "s" >>

Lit_deleteMe ==
  << "-", "d", "e", "l", "e", "t", "e", "-", "m", "e" >>

\* A faulty pattern that only looks at the start of the name.
PatternTestPrefixOnly(name) == StartsWith(name, Lit_integrations)

\* /^integrations\/[0-9a-fA-F-]+\/netsuite\/[0-9A-Za-z]+\/credentials$/
\* Neither class holds "/", so each run ends where the next literal starts.
PatternTest(name) ==
  /\ StartsWith(name, Lit_integrations)
  /\ LET afterPrefix == Drop(name, Len(Lit_integrations))
         id == ClassRun(afterPrefix, HexOrDash)
         afterId == Drop(afterPrefix, Len(id))
     IN  /\ id # << >>
         /\ StartsWith(afterId, Lit_netsuite)
         /\ LET afterNetsuite == Drop(afterId, Len(Lit_netsuite))
                account == ClassRun(afterNetsuite, AlphaNumeric)
            IN  /\ account # << >>
                /\ Drop(afterNetsuite, Len(account)) = Lit_credentials

\* `${secretName}-delete-me`
NewSecretName(name) == name \o Lit_deleteMe

\* The age below which a secret counts as recently accessed, in days.
RecentDays == 180

MsPerDay == 1000 * 3600 * 24

\* What DescribeSecret may report as LastAccessedDate: nothing, or a date
\* that lies `days` whole days and `ms` further milliseconds before now.
LastAccessedDates ==
  { [present |-> FALSE, days |-> 0, ms |-> 0],
    [present |-> TRUE, days |-> 10, ms |-> 0],
    [present |-> TRUE, days |-> RecentDays - 1, ms |-> MsPerDay - 1],
    [present |-> TRUE, days |-> RecentDays, ms |-> 0],
    [present |-> TRUE, days |-> 200, ms |-> 0] }

\* A faulty comparison that also skips a secret accessed 180 days ago.
RecentlyAccessedOrEqual(lastAccessed) ==
  lastAccessed.present /\ lastAccessed.days <= RecentDays

\* `lastAccessedDate` is set and `daysSinceAccess < 180`, where
\* daysSinceAccess = (days * MsPerDay + ms) / MsPerDay and 0 <= ms < MsPerDay,
\* so that the quotient is below 180 exactly when `days` is.
RecentlyAccessed(lastAccessed) ==
  lastAccessed.present /\ lastAccessed.days < RecentDays

\* The errors a Secrets Manager call may throw.
Errors ==
  {"ThrottlingException", "ResourceNotFoundException",
   "AccessDeniedException"}

\* What GetSecretValue may answer as SecretString.
SecretStrings == {"hunter2", "", Undef}

\* The default of callWithRetry's delayMs.
DefaultDelayMs == 1000

\* The most attempts callWithRetry is called with.
MaxRetries == 4

\* The delays callWithRetry is called with.
DelaysMs == {0, DefaultDelayMs, 2 * DefaultDelayMs}

\* What the wrapped operation may resolve to.
Values == {"v1", "v2"}

\* A faulty catch that sleeps and retries on every error.
CwrRetriedAnyError(c, error) ==
  c.attempt < c.retries - 1

\* `error.name === "ThrottlingException" && attempt < retries - 1`
CwrRetried(c, error) ==
  error = "ThrottlingException" /\ c.attempt < c.retries - 1

\* `return await operation()` when the operation resolves.
CwrOperationOk ==
  /\ cwr.at = "try"
  /\ cwr.attempt < cwr.retries
  /\ \E v \in Values :
       cwr' = [cwr EXCEPT !.at = "returned",
                          !.outcomes = Append(@, [ok |-> TRUE, value |-> v]),
                          !.value = v]
  /\ UNCHANGED << s3Vars, rsVars, scVars, toolVars >>

\* The operation rejects: the catch block sleeps or rethrows.
CwrOperationThrows ==
  /\ cwr.at = "try"
  /\ cwr.attempt < cwr.retries
  /\ \E error \in Errors :
       LET threw == [cwr EXCEPT !.outcomes =
                       Append(@, [ok |-> FALSE, error |-> error])]
       IN  cwr' = IF CwrRetried(cwr, error)
                  THEN [threw EXCEPT !.at = "sleep"]
                  ELSE [threw EXCEPT !.at = "thrown", !.error = error]
  /\ UNCHANGED << s3Vars, rsVars, scVars, toolVars >>

\* `await sleep(delayMs)` and the loop's `attempt++`.
CwrSleep ==
  /\ cwr.at = "sleep"
  /\ cwr' = [cwr EXCEPT !.at = "try", !.attempt = @ + 1,
                        !.slept = Append(@, cwr.delayMs)]
  /\ UNCHANGED << s3Vars, rsVars, scVars, toolVars >>

\* The loop ends without a return: the throw after it.
CwrLoopOver ==
  /\ cwr.at = "try"
  /\ ~(cwr.attempt < cwr.retries)
  /\ cwr' = [cwr EXCEPT !.at = "thrown", !.error = "Error"]
  /\ UNCHANGED << s3Vars, rsVars, scVars, toolVars >>

\* What the task has had from GetSecretValue: nothing yet, an answer with
\* its SecretString, or an error.
NoValue == [asked |-> FALSE, value |-> Undef, error |-> ""]

Answered(value) == [asked |-> TRUE, value |-> value, error |-> ""]

Thrown(error) == [asked |-> TRUE, value |-> Undef, error |-> error]

\* A faulty step 5 that keeps the SecretString as answered.
SecretStringAsAnswered(value) == value

\* `getSecretResult.SecretString || ""`
SecretStringOrEmpty(value) == IF Truthy(value) THEN value ELSE ""

\* markSecretForDeletion(secretName, days, secretsClient) has been called
\* and its DescribeSecret is under way in callWithRetry.
NewTask(name) ==
  [name |-> name, op |-> "DescribeSecret", at |-> "call", attempt |-> 0,
   described |-> FALSE,
   lastAccessed |-> [present |-> FALSE, days |-> 0, ms |-> 0],
   got |-> NoValue, secretString |-> "", issued |-> {}, threw |-> FALSE,
   outcome |-> ""]

\* The task issues its current operation.
Issuing(k) == [k EXCEPT !.issued = @ \cup {k.op}]

\* The task returns from markSecretForDeletion.
Settled(k, outcome) == [k EXCEPT !.at = "settled", !.outcome = outcome]

\* The task goes on to its next operation, in a new callWithRetry.
GoOn(k, op) == [k EXCEPT !.op = op, !.at = "call", !.attempt = 0]

\* callWithRetry's catch: a ThrottlingException before the last attempt
\* is slept on and retried, every other error is rethrown.
Retried(k, error) ==
  error = "ThrottlingException" /\ k.attempt < retries - 1

\* The operation of the task threw `error`; `rethrown` is the task after
\* callWithRetry has rethrown it.
AfterThrow(k, error, rethrown) ==
  IF Retried(k, error)
  THEN [Issuing(k) EXCEPT !.at = "sleep", !.threw = TRUE]
  ELSE [rethrown EXCEPT !.threw = TRUE]

\* parseArguments: usage and exit code 1 without secret names, else the
\* names and the days; main then starts one task per name.
RsParseArguments ==
  /\ rsPc = "parse"
  /\ IF Len(argv) = 0 \/ argv[1] = << >>
     THEN /\ rsPc' = "exit1"
          /\ UNCHANGED << secretNames, days, tasks >>
     ELSE /\ rsPc' = "tasks"
          /\ secretNames' = ParsedSecretNames(argv)
          /\ days' = ParsedDays(argv)
          /\ tasks' = [i \in 1..Len(ParsedSecretNames(argv)) |->
                         NewTask(ParsedSecretNames(argv)[i])]
  /\ UNCHANGED << argv, created, scheduled, rsFrame >>

\* Steps 1 to 3: DescribeSecret answers or throws; the skip on a recent
\* access, the skip on a name of another format, else on to step 5.
RsDescribeSecret(t) ==
  /\ rsPc = "tasks"
  /\ tasks[t].at = "call"
  /\ tasks[t].op = "DescribeSecret"
  /\ LET k == tasks[t]
     IN  \/ \E la \in LastAccessedDates :
              LET d == [Issuing(k) EXCEPT !.described = TRUE,
                                          !.lastAccessed = la]
              IN  tasks' = [tasks EXCEPT ![t] =
                    IF RecentlyAccessed(la)
                    THEN Settled(d, "recent")
                    ELSE IF ~PatternTest(k.name)
                    THEN Settled(d, "format")
                    ELSE GoOn(d, "GetSecretValue")]
         \/ \E error \in Errors :
              tasks' = [tasks EXCEPT ![t] =
                AfterThrow(k, error, Settled(Issuing(k), "failed"))]
  /\ UNCHANGED << rsPc, argv, secretNames, days, created, scheduled,
                  rsFrame >>

\* Step 5: GetSecretValue answers (`SecretString || ""`) or throws; a
\* ResourceNotFoundException leaves the empty string, another error ends
\* the task in the outer catch.
RsGetSecretValue(t) ==
  /\ rsPc = "tasks"
  /\ tasks[t].at = "call"
  /\ tasks[t].op = "GetSecretValue"
  /\ LET k == tasks[t]
     IN  \/ \E value \in SecretStrings :
              tasks' = [tasks EXCEPT ![t] =
                [GoOn(Issuing(k), "CreateSecret") EXCEPT
                   !.got = Answered(value),
                   !.secretString = SecretStringOrEmpty(value)]]
         \/ \E error \in Errors :
              LET g == [k EXCEPT !.got = Thrown(error)]
              IN  tasks' = [tasks EXCEPT ![t] =
                    AfterThrow(g, error,
                      IF error = "ResourceNotFoundException"
                      THEN [GoOn(Issuing(g), "CreateSecret") EXCEPT
                              !.secretString = ""]
                      ELSE Settled(Issuing(g), "failed"))]
  /\ UNCHANGED << rsPc, argv, secretNames, days, created, scheduled,
                  rsFrame >>

\* A faulty step 6 that goes on to DeleteSecret when CreateSecret failed.
RsCreateSecretFailureIgnored(t) ==
  /\ rsPc = "tasks"
  /\ tasks[t].at = "call"
  /\ tasks[t].op = "CreateSecret"
  /\ LET k == tasks[t]
     IN  \/ /\ \A c \in created : c.Name # NewSecretName(k.name)
            /\ tasks' = [tasks EXCEPT ![t] =
                 [GoOn(Issuing(k), "DeleteSecret") EXCEPT !.got = NoValue]]
            /\ created' = created \cup
                 {[Name |-> NewSecretName(k.name),
                   SecretString |-> k.secretString]}
         \/ /\ \E error \in Errors :
                 tasks' = [tasks EXCEPT ![t] =
                   AfterThrow(k, error, GoOn(Issuing(k), "DeleteSecret"))]
            /\ created' = created
  /\ UNCHANGED << rsPc, argv, secretNames, days, scheduled, rsFrame >>

\* Step 6: CreateSecret of the copy; the provider refuses a name that is
\* taken. What GetSecretValue gave is of no use once the copy is made.
RsCreateSecret(t) ==
  /\ rsPc = "tasks"
  /\ tasks[t].at = "call"
  /\ tasks[t].op = "CreateSecret"
  /\ LET k == tasks[t]
     IN  \/ /\ \A c \in created : c.Name # NewSecretName(k.name)
            /\ tasks' = [tasks EXCEPT ![t] =
                 [GoOn(Issuing(k), "DeleteSecret") EXCEPT !.got = NoValue]]
            /\ created' = created \cup
                 {[Name |-> NewSecretName(k.name),
                   SecretString |-> k.secretString]}
         \/ /\ \E error \in Errors :
                 tasks' = [tasks EXCEPT ![t] =
                   AfterThrow(k, error, Settled(Issuing(k), "failed"))]
            /\ created' = created
  /\ UNCHANGED << rsPc, argv, secretNames, days, scheduled, rsFrame >>

\* Step 7: DeleteSecret of the original with RecoveryWindowInDays: days.
RsDeleteSecret(t) ==
  /\ rsPc = "tasks"
  /\ tasks[t].at = "call"
  /\ tasks[t].op = "DeleteSecret"
  /\ LET k == tasks[t]
     IN  \/ /\ tasks' = [tasks EXCEPT ![t] =
                           Settled(Issuing(k), "renamed")]
            /\ scheduled' = scheduled \cup
                 {[SecretId |-> k.name, RecoveryWindowInDays |-> days]}
         \/ /\ \E error \in Errors :
                 tasks' = [tasks EXCEPT ![t] =
                   AfterThrow(k, error, Settled(Issuing(k), "failed"))]
            /\ scheduled' = scheduled
  /\ UNCHANGED << rsPc, argv, secretNames, days, created, rsFrame >>

\* `await sleep(delayMs)` is over: the loop of callWithRetry makes the
\* next attempt.
RsSleep(t) ==
  /\ rsPc = "tasks"
  /\ tasks[t].at = "sleep"
  /\ tasks' = [tasks EXCEPT ![t] =
                 [tasks[t] EXCEPT !.at = "call", !.attempt = @ + 1]]
  /\ UNCHANGED << rsPc, argv, secretNames, days, created, scheduled,
                  rsFrame >>

\* A faulty join that prints as soon as one task has settled.
RsMainDoneAfterAny ==
  /\ rsPc = "tasks"
  /\ \E t \in DOMAIN tasks : tasks[t].at = "settled"
  /\ rsPc' = "done"
  /\ UNCHANGED << argv, secretNames, days, tasks, created, scheduled,
                  rsFrame >>

\* Promise.all has settled: main prints its last line.
RsMainDone ==
  /\ rsPc = "tasks"
  /\ \A t \in DOMAIN tasks : tasks[t].at = "settled"
  /\ rsPc' = "done"
  /\ UNCHANGED << argv, secretNames, days, tasks, created, scheduled,
                  rsFrame >>

\* Secret names: two of the expected format, one whose id is not
\* hexadecimal, and a plain one.
Name_A ==
  << "i", "n", "t", "e", "g", "r", "a", "t", "i", "o", "n", "s", "/", "0",
     "a", "-", "F", "/", "n", "e", "t", "s", "u", "i", "t", "e", "/", "A",
     "b", "1", "/", "c", "r", "e", "d", "e", "n", "t", "i", "a", "l", "s" >>

Name_B ==
  << "i", "n", "t", "e", "g", "r", "a", "t", "i", "o", "n", "s", "/", "1",
     "2", "/", "n", "e", "t", "s", "u", "i", "t", "e", "/", "x", "/", "c",
     "r", "e", "d", "e", "n", "t", "i", "a", "l", "s" >>

Name_BadId ==
  << "i", "n", "t", "e", "g", "r", "a", "t", "i", "o", "n", "s", "/", "0",
     "g", "/", "n", "e", "t", "s", "u", "i", "t", "e", "/", "A", "b", "1",
     "/", "c", "r", "e", "d", "e", "n", "t", "i", "a", "l", "s" >>

Name_Plain ==
  << "s", "m", "1" >>

\* The first argument: one name, or two names with a comma (and blanks)
\* between them, among them the same name twice; or the empty string.
SecretNamesArgs ==
  { << >>,
    Name_A,
    Name_A \o << ",", " " >> \o Name_BadId,
    Name_Plain \o << " ", "," >> \o Name_B,
    Name_A \o << "," >> \o Name_A }

\* The second argument, when there is one.
DaysArgs == { << "1", "0" >>, << "0" >>, << "a", "b", "c" >> }

\* process.argv.slice(2)
CommandLines ==
  { << >> } \cup { << names >> : names \in SecretNamesArgs }
    \cup { << names, d >> : names \in SecretNamesArgs, d \in DaysArgs }

InitRename ==
  /\ pc = "idle"
  /\ mainArgv = << >>
  /\ bucketArray = << >>
  /\ live = {}
  /\ limits = [len |-> 0, pages |-> 0]
  /\ objects = << >>
  /\ InitLocals
  /\ ToolsIdle
  /\ CwrIdle
  /\ ScIdle
  /\ rsPc = "parse"
  /\ argv \in CommandLines
  /\ secretNames = << >>
  /\ days = 0
  /\ tasks = << >>
  /\ created = {}
  /\ scheduled = {}

NextRename ==
  \/ RsParseArguments
  \/ \E t \in DOMAIN tasks : RsDescribeSecret(t)
  \/ \E t \in DOMAIN tasks : RsGetSecretValue(t)
  \/ \E t \in DOMAIN tasks : RsCreateSecret(t)
  \/ \E t \in DOMAIN tasks : RsDeleteSecret(t)
  \/ \E t \in DOMAIN tasks : RsSleep(t)
  \/ RsMainDone

SpecRename == InitRename /\ [][NextRename]_vars

\* callWithRetry on its own, called with some retries and some delayMs.
InitRetry ==
  /\ pc = "idle"
  /\ mainArgv = << >>
  /\ bucketArray = << >>
  /\ live = {}
  /\ limits = [len |-> 0, pages |-> 0]
  /\ objects = << >>
  /\ InitLocals
  /\ ToolsIdle
  /\ RsIdle
  /\ ScIdle
  /\ \E r \in 0..MaxRetries, d \in DelaysMs :
       cwr = [at |-> "try", retries |-> r, delayMs |-> d, attempt |-> 0,
              outcomes |-> << >>, slept |-> << >>, value |-> Undef,
              error |-> Undef]

NextRetry ==
  \/ CwrOperationOk
  \/ CwrOperationThrows
  \/ CwrSleep
  \/ CwrLoopOver

SpecRetry == InitRetry /\ [][NextRetry]_vars

\* ------------------------------------ schedule-clean-secrets-manager.ts
\* What a step of schedule-clean-secrets-manager.ts leaves alone.
scFrame == << s3Vars, rsVars, cwr, scArgv, toolVars >>

\* scheduleDeletion(secretName, days, secretsClient, cfnClient) has been
\* called by the m-th call of main and its DescribeSecret is under way.
ScNewTask(m, name) ==
  [main |-> m, name |-> name, op |-> "DescribeSecret", at |-> "call",
   stackName |-> Undef, stackFailed |-> FALSE, outcome |-> ""]

\* The tasks one call of main starts: one per name, in `secretNames.map`.
ScTasksOf(m, names) == [i \in 1..Len(names) |-> ScNewTask(m, names[i])]

\* The module is loaded: `main().catch(...)` and then `await main()` in
\* the function that follows it, each up to its first await. Without
\* secret names parseArguments of the first call ends the process with
\* code 1; else both calls start their tasks.
ScLoad ==
  /\ scMains = << "load", "load" >>
  /\ IF Len(scArgv) = 0 \/ scArgv[1] = << >>
     THEN /\ scMains' = << "exit1", "exit1" >>
          /\ UNCHANGED scTasks
     ELSE /\ scMains' = << "tasks", "tasks" >>
          /\ scTasks' = ScTasksOf(1, ParsedSecretNames(scArgv))
                          \o ScTasksOf(2, ParsedSecretNames(scArgv))
  /\ UNCHANGED scFrame

\* Steps 1 and 2: DescribeSecret answers with or without the stack-name
\* tag, or throws into the outer catch.
ScDescribeSecret(t) ==
  /\ scTasks[t].at = "call"
  /\ scTasks[t].op = "DescribeSecret"
  /\ \/ \E tag \in StackTags :
          scTasks' = [scTasks EXCEPT ![t] =
            IF Truthy(tag)
            THEN [@ EXCEPT !.op = "DeleteStack", !.stackName = tag]
            ELSE [@ EXCEPT !.op = "DeleteSecret"]]
     \/ scTasks' = [scTasks EXCEPT ![t] =
                      [@ EXCEPT !.at = "settled", !.outcome = "failed"]]
  /\ UNCHANGED << scFrame, scMains >>

\* Step 3: DeleteStack answers or throws; the secret is deleted next
\* either way.
ScDeleteStack(t) ==
  /\ scTasks[t].at = "call"
  /\ scTasks[t].op = "DeleteStack"
  /\ \E failed \in BOOLEAN :
       scTasks' = [scTasks EXCEPT ![t] =
                     [@ EXCEPT !.op = "DeleteSecret", !.stackFailed = failed]]
  /\ UNCHANGED << scFrame, scMains >>

\* Step 4: DeleteSecret answers, and the delay follows, or throws into
\* the outer catch.
ScDeleteSecret(t) ==
  /\ scTasks[t].at = "call"
  /\ scTasks[t].op = "DeleteSecret"
  /\ \/ scTasks' = [scTasks EXCEPT ![t] = [@ EXCEPT !.op = "delay"]]
     \/ scTasks' = [scTasks EXCEPT ![t] =
                      [@ EXCEPT !.at = "settled", !.outcome = "failed"]]
  /\ UNCHANGED << scFrame, scMains >>

\* `await delay(1000)` is over: the task returns.
ScDelay(t) ==
  /\ scTasks[t].at = "call"
  /\ scTasks[t].op = "delay"
  /\ scTasks' = [scTasks EXCEPT ![t] =
                   [@ EXCEPT !.at = "settled", !.outcome = "scheduled"]]
  /\ UNCHANGED << scFrame, scMains >>

\* Promise.all of the m-th call of main has settled: its last line.
ScMainDone(m) ==
  /\ scMains[m] = "tasks"
  /\ \A t \in DOMAIN scTasks :
       scTasks[t].main = m => scTasks[t].at = "settled"
  /\ scMains' = [scMains EXCEPT ![m] = "done"]
  /\ UNCHANGED << scFrame, scTasks >>

\* The script is run with secret names (or none) and no days.
InitSchedule ==
  /\ pc = "idle"
  /\ mainArgv = << >>
  /\ bucketArray = << >>
  /\ live = {}
  /\ limits = [len |-> 0, pages |-> 0]
  /\ objects = << >>
  /\ InitLocals
  /\ ToolsIdle
  /\ RsIdle
  /\ CwrIdle
  /\ scArgv \in { a \in CommandLines : Len(a) < 2 }
  /\ scMains = << "load", "load" >>
  /\ scTasks = << >>

NextSchedule ==
  \/ ScLoad
  \/ \E t \in DOMAIN scTasks : ScDescribeSecret(t)
  \/ \E t \in DOMAIN scTasks : ScDeleteStack(t)
  \/ \E t \in DOMAIN scTasks : ScDeleteSecret(t)
  \/ \E t \in DOMAIN scTasks : ScDelay(t)
  \/ \E m \in DOMAIN scMains : ScMainDone(m)

SpecSchedule == InitSchedule /\ [][NextSchedule]_vars

\* ----------------------------------- the Security Hub report generators
\* security-insight-secrets-mgr.ts (SecretsManager.3) and the generator for
\* S3.8 have the same shape; `gen` tells which one runs.
Generators == {"secrets", "buckets"}

\* What a step of a report generator leaves alone.
shFrame == << s3Vars, rsVars, cwr, scVars, cb, al >>

\* The cleanup driver is not running.
DriverIdle ==
  /\ pc = "idle"
  /\ mainArgv = << >>
  /\ bucketArray = << >>
  /\ live = {}
  /\ limits = [len |-> 0, pages |-> 0]
  /\ objects = << >>
  /\ InitLocals

\* An optional member: `undefined`, or a value.
Absent == [present |-> FALSE, items |-> << >>]

Present(items) == [present |-> TRUE, items |-> items]

\* A resource of a finding: Details?.AwsSecretsManagerSecret?.Name (or
\* Details?.AwsS3Bucket?.Name) and Tags, with the value it has for the key
\* aws:cloudformation:stack-name.
Resource(name, tagged, stackTag) ==
  [Name |-> name, Tags |-> [present |-> tagged, stackName |-> stackTag]]

Finding(id, account, label, region, updatedAt, resources) ==
  [AwsAccountId |-> id, AwsAccountName |-> account,
   Severity |-> [present |-> label # "none",
                 Label |-> IF label = "none" THEN Undef ELSE label],
   Region |-> region, UpdatedAt |-> updatedAt, Resources |-> resources]

\* The findings Security Hub may report: a complete one, one with nothing
\* in it, and ones that lack the resources, the name, the tags or the tag.
FindingSamples ==
  << Finding("111", "dev", "HIGH", "us-east-1", "t1",
             Present(<< Resource("x", TRUE, "s1") >>)),
     Finding(Undef, Undef, "none", Undef, Undef, Absent),
     Finding("222", "", Undef, "", "t2", Present(<< >>)),
     Finding("333", Undef, "LOW", "eu-west-1", Undef,
             Present(<< Resource(Undef, TRUE, "s2") >>)),
     Finding("444", "ops", "none", "us-east-1", "t3",
             Present(<< Resource("y", FALSE, Undef),
                        Resource("z", TRUE, "s3") >>)),
     Finding(Undef, "qa", "HIGH", Undef, "t4",
             Present(<< Resource("w", TRUE, Undef) >>)) >>

\* The most findings in a response, and the most responses in a chain.
MaxFindings == 2

MaxResponses == 2

\* `len` samples from the `start`-th one on, going round.
SomeFindings(start, len) ==
  [i \in 1..len |->
     FindingSamples[((start + i - 2) % Len(FindingSamples)) + 1]]

\* What a response may have as Findings: nothing, or up to MaxFindings
\* findings.
FindingLists ==
  { Absent }
    \cup { Present(SomeFindings(start, len)) :
             start \in DOMAIN FindingSamples, len \in 0..MaxFindings }

\* What the n-th response may have as NextToken: a response short of the
\* chain bound may carry a token, the last one carries none.
NextTokens(n) ==
  { Undef, "" } \cup (IF n < MaxResponses THEN { Tok("t", n) } ELSE {})

\* A faulty loop that never asks for another page.
LoopsNever(nextToken) == FALSE

\* `while (nextToken)`
LoopsAgain(nextToken) == Truthy(nextToken)

\* `x ?? placeholder`
Coalesce(x, placeholder) == IF x = Undef THEN placeholder ELSE x

\* `f.Resources?.[0]?.Details?.AwsSecretsManagerSecret?.Name`, and the
\* same with AwsS3Bucket
FirstResourceName(f) ==
  IF f.Resources.present /\ Len(f.Resources.items) > 0
  THEN f.Resources.items[1].Name
  ELSE Undef

getCloudFormationStackNameTag(finding) ==
  IF ~finding.Resources.present \/ Len(finding.Resources.items) = 0
  THEN "N/A"
  ELSE LET tags == finding.Resources.items[1].Tags
       IN  IF ~tags.present THEN "N/A"
           ELSE Coalesce(tags.stackName, "N/A")

\* The value of the second sheet's tag column for a finding without name.
InvalidName(gen) ==
  IF gen = "secrets" THEN "N/A (invalid Secrets name)"
  ELSE "N/A (invalid bucket name)"

\* The row of the first sheet for finding f.
NoSslRow(f) ==
  [accountId |-> Coalesce(f.AwsAccountId, "UNKNOWN_ACCOUNT"),
   accountName |-> Coalesce(f.AwsAccountName, "N/A"),
   severity |-> Coalesce(IF f.Severity.present THEN f.Severity.Label
                         ELSE Undef, "N/A"),
   region |-> Coalesce(f.Region, "N/A"),
   name |-> Coalesce(FirstResourceName(f), "N/A"),
   lastUpdated |-> Coalesce(f.UpdatedAt, "N/A")]

\* The row of the second sheet for finding f.
CfnTagRow(gen, f) ==
  [accountId |-> Coalesce(f.AwsAccountId, "UNKNOWN_ACCOUNT"),
   accountName |-> Coalesce(f.AwsAccountName, "N/A"),
   region |-> Coalesce(f.Region, "N/A"),
   name |-> Coalesce(FirstResourceName(f), "N/A"),
   tags |-> IF Coalesce(FirstResourceName(f), "N/A") = "N/A"
            THEN InvalidName(gen)
            ELSE getCloudFormationStackNameTag(f)]

\* One round of the do-while loop: GetFindings is sent with the token in
\* hand and answers; the findings of the response, if any, are appended
\* and its token decides whether the loop goes round again.
ShGetFindings ==
  /\ sh.at = "GetFindings"
  /\ \E fs \in FindingLists, token \in NextTokens(Len(sh.responses) + 1) :
       sh' = [sh EXCEPT
                !.calls = Append(@, sh.nextToken),
                !.responses = Append(@, [Findings |-> fs,
                                         NextToken |-> token]),
                !.findings = IF fs.present THEN @ \o fs.items ELSE @,
                !.nextToken = token,
                !.at = IF LoopsAgain(token) THEN "GetFindings" ELSE "rows"]
  /\ UNCHANGED shFrame

\* GetFindings throws: the export is rejected and the script logs it.
ShGetFindingsFail ==
  /\ sh.at = "GetFindings"
  /\ sh' = [sh EXCEPT !.calls = Append(@, sh.nextToken), !.at = "failed"]
  /\ UNCHANGED shFrame

\* The rows of both sheets are made in one pass over the findings and
\* added to the worksheets, and the workbook is written.
ShExport ==
  /\ sh.at = "rows"
  /\ sh' = [sh EXCEPT
              !.noSslRows = [i \in DOMAIN sh.findings |->
                               NoSslRow(sh.findings[i])],
              !.cfnTagRows = [i \in DOMAIN sh.findings |->
                                CfnTagRow(sh.gen, sh.findings[i])],
              !.at = "done"]
  /\ UNCHANGED shFrame

InitFindings ==
  /\ DriverIdle
  /\ RsIdle
  /\ CwrIdle
  /\ ScIdle
  /\ CbIdle
  /\ AlIdle
  /\ \E gen \in Generators :
       sh = [gen |-> gen, at |-> "GetFindings", nextToken |-> Undef,
             findings |-> << >>, calls |-> << >>, responses |-> << >>,
             noSslRows |-> << >>, cfnTagRows |-> << >>]

NextFindings ==
  \/ ShGetFindings
  \/ ShGetFindingsFail
  \/ ShExport

SpecFindings == InitFindings /\ [][NextFindings]_vars

\* --------------------------------------------- categorizeS3Buckets.ts
\* What a step of categorizeBucket leaves alone.
cbFrame == << s3Vars, rsVars, cwr, scVars, sh, al >>

\* String.prototype.includes
includes(s, literal) ==
  \E i \in 0..(Len(s) - Len(literal)) :
    SubSeq(s, i + 1, i + Len(literal)) = literal

Lit_Expiration ==
  << "E", "x", "p", "i", "r", "a", "t", "i", "o", "n" >>

Lit_NoLifecycle ==
  << "N", "o", "L", "i", "f", "e", "c", "y", "c", "l", "e" >>

Lit_None ==
  << "N", "o", "n", "e" >>

Lit_NoResource ==
  << "N", "o", "R", "e", "s", "o", "u", "r", "c", "e" >>

Lit_NoBucket ==
  << "N", "o", "B", "u", "c", "k", "e", "t" >>

Lit_NoBucketPolicy ==
  << "N", "o", "B", "u", "c", "k", "e", "t", "P", "o", "l", "i", "c", "y" >>

Lit_NoSuchBucketPolicy ==
  << "N", "o", "S", "u", "c", "h", "B", "u", "c", "k", "e", "t", "P", "o",
     "l", "i", "c", "y" >>

Lit_NoSuchBucket ==
  << "N", "o", "S", "u", "c", "h", "B", "u", "c", "k", "e", "t" >>

Lit_NoSuchLifecycleConfiguration ==
  << "N", "o", "S", "u", "c", "h", "L", "i", "f", "e", "c", "y", "c", "l",
     "e", "C", "o", "n", "f", "i", "g", "u", "r", "a", "t", "i", "o", "n" >>

Lit_doesNotExist ==
  << "d", "o", "e", "s", " ", "n", "o", "t", " ", "e", "x", "i", "s", "t" >>

\* What execSync did: it returned the standard output of the command, or
\* it threw with the standard error of the command.
Printed(stdout) == [ok |-> TRUE, text |-> stdout]

Failed(stderr) == [ok |-> FALSE, text |-> stderr]

\* runAwsCommand: the trimmed output, or the word for a known error, or
\* the empty string.
runAwsCommand(outcome) ==
  IF outcome.ok THEN trim(outcome.text)
  ELSE IF includes(outcome.text, Lit_NoSuchBucketPolicy)
  THEN Lit_NoBucketPolicy
  ELSE IF includes(outcome.text, Lit_NoSuchBucket) THEN Lit_NoBucket
  ELSE IF includes(outcome.text, Lit_NoSuchLifecycleConfiguration)
  THEN Lit_NoLifecycle
  ELSE IF includes(outcome.text, Lit_doesNotExist) THEN Lit_NoResource
  ELSE << >>

\* Failures of the CLI: no lifecycle configuration, no such bucket, no
\* such stack, and one that runAwsCommand does not know.
Fail_NoLifecycle ==
  Failed(<< "(" >> \o Lit_NoSuchLifecycleConfiguration \o << ")" >>)

Fail_NoBucket == Failed(<< "(" >> \o Lit_NoSuchBucket \o << ")" >>)

Fail_NoStack == Failed(<< "b", "1", " " >> \o Lit_doesNotExist)

Fail_Other == Failed(<< "d", "e", "n", "i", "e", "d" >>)

\* What the CLI prints for the rules of a lifecycle configuration.
LifecycleOutcomes ==
  { Printed(<< "r", "1", " " >> \o Lit_Expiration \o << " ", "3", " " >>),
    Printed(<< "r", "2", " ", "T", "r", "a", "n", "s", " " >>),
    Printed(Lit_None \o << " " >>),
    Fail_NoLifecycle, Fail_NoBucket, Fail_Other }

\* What the CLI prints for a listing of objects.
ListingOutcomes ==
  { Printed(<< "k", "1", " ", "9", " " >>), Printed(Lit_None \o << " " >>),
    Printed(<< " " >>), Fail_NoBucket, Fail_Other }

\* What gdate prints, when it is installed.
DateOutcomes ==
  { Printed(<< "2", "0", "2", "5", " " >>), Fail_Other }

\* What the CLI prints for the resources of the stack named as the bucket.
StackOutcomes ==
  { Printed(<< "B", "u", "c", "k", "e", "t", " " >>), Fail_NoStack,
    Fail_Other }

\* What the CLI prints for a time of that stack.
TimeOutcomes ==
  { Printed(<< "2", "0", "2", "4", " " >>), Printed(Lit_None \o << " " >>),
    Fail_Other }

\* The age in days of the stack's time, for the times the CLI prints.
StackAges == {10, 180, 181}

THRESHOLD_DAYS == 180

\* A faulty second branch that is never taken.
NoRecentObjectsNever(recentObjects) == FALSE

\* `recentObjects === "None"`
NoRecentObjects(recentObjects) == recentObjects = Lit_None

\* The first check: a lifecycle rule that expires objects, no lifecycle
\* configuration, or an empty listing.
NoLongerUsed(lifecyclePolicy, objectList) ==
  \/ includes(lifecyclePolicy, Lit_Expiration)
  \/ includes(lifecyclePolicy, Lit_NoLifecycle)
  \/ objectList = << >>

\* Step 3 of categorizeBucket and what follows it: the outcomes of the
\* three CloudFormation commands and the age of the stack decide.
AfterRecentCheck(c, stackOutcome, updatedOutcome, createdOutcome, age) ==
  LET stackAssociation == runAwsCommand(stackOutcome)
      lastUpdatedTimeRaw == runAwsCommand(updatedOutcome)
      creationTimeRaw == runAwsCommand(createdOutcome)
      lastUpdatedTime ==
        IF lastUpdatedTimeRaw = << >> \/ lastUpdatedTimeRaw = Lit_None
        THEN creationTimeRaw # << >> /\ creationTimeRaw # Lit_None
        ELSE TRUE
  IN  IF stackAssociation # Lit_NoResource
      THEN IF lastUpdatedTime /\ age > THRESHOLD_DAYS
           THEN "Stale CloudFormation"
           ELSE "Actively Used (Fix in Code)"
      ELSE IF stackAssociation = Lit_NoResource
      THEN "No Longer Used (Cleanup)"
      ELSE IF /\ ~includes(c.lifecyclePolicy, Lit_Expiration)
              /\ ~includes(c.lifecyclePolicy, Lit_NoLifecycle)
              /\ c.objectList = << >>
              /\ stackAssociation = << >>
              /\ c.recentObjects = << >>
      THEN "Manual Review Required"
      ELSE ""

\* categorizeBucket is called.
NewCategorization ==
  [at |-> "lifecyclePolicy", lifecyclePolicy |-> << >>,
   objectList |-> << >>, lastModifiedDate |-> << >>,
   recentObjects |-> << >>, returnedAt |-> "", result |-> ""]

\* The lifecycle rules are asked for.
CbLifecyclePolicy ==
  /\ cb.at = "lifecyclePolicy"
  /\ \E outcome \in LifecycleOutcomes :
       cb' = [cb EXCEPT !.lifecyclePolicy = runAwsCommand(outcome),
                        !.at = "objectList"]
  /\ UNCHANGED cbFrame

\* The objects are listed, and the first check returns or lets pass.
CbObjectList ==
  /\ cb.at = "objectList"
  /\ \E outcome \in ListingOutcomes :
       LET objectList == runAwsCommand(outcome)
       IN  cb' = IF NoLongerUsed(cb.lifecyclePolicy, objectList)
                 THEN [cb EXCEPT !.objectList = objectList,
                                 !.at = "returned",
                                 !.returnedAt = "lifecycle check",
                                 !.result = "No Longer Used (Cleanup)"]
                 ELSE [cb EXCEPT !.objectList = objectList,
                                 !.at = "lastModifiedDate"]
  /\ UNCHANGED cbFrame

\* The date of 90 days ago is asked for.
CbLastModifiedDate ==
  /\ cb.at = "lastModifiedDate"
  /\ \E outcome \in DateOutcomes :
       cb' = [cb EXCEPT !.lastModifiedDate = runAwsCommand(outcome),
                        !.at = "recentObjects"]
  /\ UNCHANGED cbFrame

\* The recent objects are listed; the second check and all that follows
\* it, up to the return of categorizeBucket.
CbRecentObjects ==
  /\ cb.at = "recentObjects"
  /\ \E outcome \in ListingOutcomes, stackOutcome \in StackOutcomes,
        updatedOutcome, createdOutcome \in TimeOutcomes,
        age \in StackAges :
       LET c == [cb EXCEPT !.recentObjects = runAwsCommand(outcome),
                           !.at = "returned"]
       IN  cb' = IF c.recentObjects # Lit_None
                 THEN [c EXCEPT !.returnedAt = "recent-objects check",
                                !.result = "Unsure (Review)"]
                 ELSE IF NoRecentObjects(c.recentObjects)
                 THEN [c EXCEPT !.returnedAt = "recent-objects check",
                                !.result = "Manual Review Required"]
                 ELSE [c EXCEPT !.returnedAt = "after the checks",
                                !.result =
                                   AfterRecentCheck(c, stackOutcome,
                                     updatedOutcome, createdOutcome, age)]
  /\ UNCHANGED cbFrame

InitCategorize ==
  /\ DriverIdle
  /\ RsIdle
  /\ CwrIdle
  /\ ScIdle
  /\ ShIdle
  /\ AlIdle
  /\ cb = NewCategorization

NextCategorize ==
  \/ CbLifecyclePolicy
  \/ CbObjectList
  \/ CbLastModifiedDate
  \/ CbRecentObjects

SpecCategorize == InitCategorize /\ [][NextCategorize]_vars

\* ------------------------------------------- scripts/apply-lifecycle.sh
\* What a step of apply-lifecycle.sh leaves alone.
alFrame == << s3Vars, rsVars, cwr, scVars, sh, cb >>

\* `[ "$elapsed" -ge 30 ]`
RetryWindow == 30

\* `sleep 3`
SleepSeconds == 3

\* The seconds one `aws s3 rb --force` may take.
RbSeconds == {1, 20}

\* `IFS=',' read -ra bucket_array <<< "$buckets"`: the fields between
\* the commas, without the empty field after a trailing comma.
ReadArray(buckets) ==
  LET fields == split(buckets, ",")
  IN  IF fields[Len(fields)] = << >>
      THEN SubSeq(fields, 1, Len(fields) - 1)
      ELSE fields

\* The loop goes to the next field: `xargs` trims it, an empty one is
\* skipped; after the last one comes the report.
RECURSIVE AlGoto(_, _)
AlGoto(a, next) ==
  IF next > Len(a.bucket_array)
  THEN [a EXCEPT !.i = next, !.at = "report"]
  ELSE IF trim(a.bucket_array[next]) = << >>
  THEN AlGoto(a, next + 1)
  ELSE [a EXCEPT !.i = next, !.at = "head-bucket"]

\* $BUCKET
AlBucket == NameOf(trim(al.bucket_array[al.i]))

\* The argument check, the check for the CLI, and the split of the names.
AlStart ==
  /\ al.at = "start"
  /\ \E installed \in {TRUE, FALSE} :
       al' = IF Len(al.args) # 1 \/ al.args[1] = << >> \/ ~installed
             THEN [al EXCEPT !.at = "exit", !.exitCode = << 1 >>]
             ELSE IF ReadArray(al.args[1]) = << >>
             THEN [al EXCEPT !.at = "exit", !.exitCode = << 1 >>]
             ELSE AlGoto([al EXCEPT !.bucket_array = ReadArray(al.args[1])],
                         1)
  /\ UNCHANGED alFrame

\* `aws s3api head-bucket`: a bucket that is not there, or not accessible,
\* is skipped; another one is noted as existing.
AlHeadBucket ==
  /\ al.at = "head-bucket"
  /\ \E ok \in {TRUE, FALSE} :
       al' = IF ok
             THEN [al EXCEPT !.existing_buckets = Append(@, AlBucket),
                             !.elapsed = 0,
                             !.at = "rb"]
             ELSE AlGoto(al, al.i + 1)
  /\ UNCHANGED alFrame

\* `aws s3 rb --force` in the retry loop: deleted, or not yet and the
\* window is over, or not yet and the loop sleeps.
AlRemoveBucket ==
  /\ al.at = "rb"
  /\ \E ok \in {TRUE, FALSE}, seconds \in RbSeconds :
       LET a == [al EXCEPT !.elapsed = @ + seconds]
       IN  al' = IF ok
                 THEN AlGoto([a EXCEPT !.removed = @ \cup {AlBucket}],
                             al.i + 1)
                 ELSE IF a.elapsed >= RetryWindow
                 THEN [a EXCEPT !.at = "put-bucket-lifecycle-configuration"]
                 ELSE [a EXCEPT !.at = "sleep"]
  /\ UNCHANGED alFrame

\* `sleep 3`
AlSleep ==
  /\ al.at = "sleep"
  /\ al' = [al EXCEPT !.elapsed = @ + SleepSeconds, !.at = "rb"]
  /\ UNCHANGED alFrame

\* The lifecycle policy is applied to the bucket that is still there;
\* only a failure of that call puts the bucket on failed_deletions.
AlPutLifecycle ==
  /\ al.at = "put-bucket-lifecycle-configuration"
  /\ \E ok \in {TRUE, FALSE} :
       al' = AlGoto(IF ok THEN al
                    ELSE [al EXCEPT !.failed_deletions =
                                       Append(@, AlBucket)],
                    al.i + 1)
  /\ UNCHANGED alFrame

\* The two forms of the final report.
Report_NotDeleted ==
  "The following buckets exist but were NOT deleted due to errors:"

Report_AllDeleted == "All existing buckets were successfully deleted."

\* The final report.
AlReport ==
  /\ al.at = "report"
  /\ al' = [al EXCEPT
              !.report = IF Len(al.failed_deletions) > 0
                         THEN Report_NotDeleted
                         ELSE Report_AllDeleted,
              !.at = "exit",
              !.exitCode = << 0 >>]
  /\ UNCHANGED alFrame

InitLifecycle ==
  /\ DriverIdle
  /\ RsIdle
  /\ CwrIdle
  /\ ScIdle
  /\ ShIdle
  /\ CbIdle
  /\ \E args \in CommandLineArgs :
       al = [at |-> "start", args |-> args, bucket_array |-> << >>,
             i |-> 0, existing_buckets |-> << >>,
             failed_deletions |-> << >>, elapsed |-> 0, removed |-> {},
             report |-> "", exitCode |-> << >>]

NextLifecycle ==
  \/ AlStart
  \/ AlHeadBucket
  \/ AlRemoveBucket
  \/ AlSleep
  \/ AlPutLifecycle
  \/ AlReport

SpecLifecycle == InitLifecycle /\ [][NextLifecycle]_vars

\* The steps of the task of the t-th name.
RsTask(t) ==
  /\ t \in DOMAIN tasks
  /\ \/ RsDescribeSecret(t)
     \/ RsGetSecretValue(t)
     \/ RsCreateSecret(t)
     \/ RsDeleteSecret(t)
     \/ RsSleep(t)

\* The positions a name can have on the command lines.
TaskIds ==
  UNION { DOMAIN ParsedSecretNames(args) :
            args \in { a \in CommandLines : Len(a) > 0 } }

\* The event loop runs every continuation that is ready: the provider
\* answers each call, each timer fires, and main goes on once Promise.all
\* has settled.
FairSpecRename ==
  /\ SpecRename
  /\ WF_vars(RsParseArguments)
  /\ \A t \in TaskIds : WF_vars(RsTask(t))
  /\ WF_vars(RsMainDone)

\* The names on the command lines that have the expected format.
MatchingNames == {Name_A, Name_B}

IsNumeral(s) == s # << >> /\ \A i \in 1..Len(s) : s[i] \in Digits

\* DescribeSecret has reported a last access less than 180 days ago.
AccessedRecently(k) ==
  k.described /\ k.lastAccessed.present /\ k.lastAccessed.days < 180

\* DescribeSecret has reported no last access, or one at least 180 days
\* ago, for a secret whose name has the expected format.
Qualifies(k) ==
  /\ k.described
  /\ ~k.lastAccessed.present \/ k.lastAccessed.days >= 180
  /\ k.name \in MatchingNames

\* The task was skipped after its DescribeSecret.
Skipped(k) ==
  /\ k.at = "settled"
  /\ k.outcome = "recent"
  /\ k.issued = {"DescribeSecret"}

\* The task created the copy and scheduled the original with `window`.
RenamedWith(k, window) ==
  /\ k.outcome = "renamed"
  /\ \E c \in created : c.Name = k.name \o Lit_deleteMe
  /\ [SecretId |-> k.name, RecoveryWindowInDays |-> window] \in scheduled
  /\ \A r \in scheduled :
       r.SecretId = k.name => r.RecoveryWindowInDays = window

\* C5, as stated: a secret last accessed less than 180 days ago is skipped
\* with no GetSecretValue, CreateSecret or DeleteSecret; one never accessed
\* or accessed at least 180 days ago, with a matching name, gets, when no
\* call fails, its `-delete-me` copy and is scheduled for deletion with the
\* recovery window given on the command line.  It fails for the window "0",
\* in place of which the script schedules with 7 days.
C5_WindowAsGiven ==
  \A t \in DOMAIN tasks :
    LET k == tasks[t]
    IN  /\ AccessedRecently(k) => Skipped(k)
        /\ (Qualifies(k) /\ ~k.threw /\ k.at = "settled"
              /\ Len(argv) >= 2 /\ IsNumeral(argv[2]))
             => RenamedWith(k, DecimalValue(argv[2]))

\* The window of parseArguments for the command lines above: the number
\* given, but 7 when there is none, or it is no number, or it is 0.
WindowOrDefault ==
  IF Len(argv) >= 2 /\ IsNumeral(argv[2]) /\ DecimalValue(argv[2]) # 0
  THEN DecimalValue(argv[2])
  ELSE 7

\* C5, amended: a secret last accessed less than 180 days ago is skipped
\* with no GetSecretValue, CreateSecret or DeleteSecret; one never accessed
\* or accessed at least 180 days ago, with a matching name, gets, when no
\* call fails, its `-delete-me` copy and is scheduled for deletion with the
\* recovery window given on the command line, or with 7 days when none is
\* given or the one given is not a number or is 0.
C5_SkipRecentElseRename ==
  \A t \in DOMAIN tasks :
    LET k == tasks[t]
    IN  /\ AccessedRecently(k) => Skipped(k)
        /\ (Qualifies(k) /\ ~k.threw /\ k.at = "settled")
             => RenamedWith(k, WindowOrDefault)

\* With 10 days on the command line, one secret accessed 10 days ago was
\* skipped and one accessed 200 days ago was copied and scheduled with a
\* window of 10 days.
C5_Witness ==
  /\ rsPc = "done"
  /\ days = 10
  /\ \E t, u \in DOMAIN tasks :
       /\ tasks[t].lastAccessed = [present |-> TRUE, days |-> 10, ms |-> 0]
       /\ Skipped(tasks[t])
       /\ tasks[u].lastAccessed = [present |-> TRUE, days |-> 200, ms |-> 0]
       /\ ~tasks[u].threw
       /\ RenamedWith(tasks[u], 10)

\* The ways markSecretForDeletion returns; a failure is caught and logged
\* inside the task.
Outcomes == {"recent", "format", "failed", "renamed"}

\* C13: the tasks of the rename script are isolated. A step of one task
\* changes no other task; a task that has not returned can always take its
\* next step, whatever the others did; every task returns normally (a
\* failure is an outcome, not a rejection); main prints its last line only
\* when all tasks have settled; and, unless the arguments are refused, the
\* run does get there, so that each task settles.
C13_TasksIsolated ==
  /\ [](\A t \in DOMAIN tasks :
          /\ tasks[t].at \in {"call", "sleep", "settled"}
          /\ tasks[t].at = "settled" <=> tasks[t].outcome \in Outcomes
          /\ (rsPc = "tasks" /\ tasks[t].at # "settled") => ENABLED RsTask(t))
  /\ [](rsPc = "done" => \A t \in DOMAIN tasks : tasks[t].at = "settled")
  /\ [][\A t \in DOMAIN tasks :
          tasks'[t] # tasks[t]
            => \A u \in DOMAIN tasks \ {t} : tasks'[u] = tasks[u]]_vars
  /\ <>(rsPc \in {"done", "exit1"})

\* One task failed at its first call and the other one renamed its secret.
C13_Witness ==
  /\ rsPc = "done"
  /\ Len(tasks) = 2
  /\ tasks[1].outcome = "failed"
  /\ tasks[1].issued = {"DescribeSecret"}
  /\ tasks[2].outcome = "renamed"

\* The invocations of the operation that ended in `error`.
ThrewAt(error) ==
  { i \in DOMAIN cwr.outcomes :
      ~cwr.outcomes[i].ok /\ cwr.outcomes[i].error = error }

\* C14: callWithRetry invokes the operation at most `retries` times. Every
\* invocation but the last one ended in a ThrottlingException and was
\* followed by one sleep of delayMs. A success is the last invocation and
\* its value is returned; an error other than ThrottlingException is the
\* last invocation and is rethrown; a ThrottlingException at the last
\* allowed attempt is rethrown. After the return or the throw nothing more
\* is invoked.
C14_RetryOnlyOnThrottling ==
  LET n == Len(cwr.outcomes)
      over == cwr.at \in {"returned", "thrown"}
  IN  /\ n <= cwr.retries
      /\ \A i \in 1..(n - 1) : i \in ThrewAt("ThrottlingException")
      /\ \A i \in DOMAIN cwr.slept : cwr.slept[i] = cwr.delayMs
      /\ cwr.at = "try" => Len(cwr.slept) = n /\ cwr.attempt = n
      /\ cwr.at = "sleep" => Len(cwr.slept) = n - 1
      /\ (over /\ n > 0) => Len(cwr.slept) = n - 1
      /\ (n > 0 /\ cwr.outcomes[n].ok)
           => cwr.at = "returned" /\ cwr.value = cwr.outcomes[n].value
      /\ cwr.at = "returned" => n > 0 /\ cwr.outcomes[n].ok
      /\ \A e \in Errors \ {"ThrottlingException"} :
           n \in ThrewAt(e) => cwr.at = "thrown" /\ cwr.error = e
      /\ (n > 0 /\ n \in ThrewAt("ThrottlingException"))
           => IF n = cwr.retries
              THEN cwr.at = "thrown" /\ cwr.error = "ThrottlingException"
              ELSE cwr.at \in {"sleep", "try"}
      /\ (cwr.at = "thrown" /\ n > 0)
           => ~cwr.outcomes[n].ok /\ cwr.error = cwr.outcomes[n].error
      /\ over => ~ENABLED NextRetry

\* With the default arguments: three throttled invocations, two sleeps of
\* the default delay, and the ThrottlingException rethrown.
C14_Witness ==
  /\ cwr.retries = retries
  /\ cwr.delayMs = DefaultDelayMs
  /\ cwr.at = "thrown"
  /\ cwr.error = "ThrottlingException"
  /\ ThrewAt("ThrottlingException") = 1..retries
  /\ cwr.slept = << DefaultDelayMs, DefaultDelayMs >>

\* The names that are not empty, in their order.
NonEmpty(names) == SelectSeq(names, LAMBDA b : b # "")

\* Whether main is between two iterations, or after the last one.
BetweenIterations == pc \in {"main_loop", "done"}

\* C15: no failure of a provider call ends the run of the clean-up driver.
\* Once the names are taken from the command line the script never exits
\* early, and after a call that failed it has a next step to take; the
\* names it has begun an iteration for are the non-empty
\* names up to the current position, in the order of the command line, and
\* at the summary they are all the non-empty names.
C15_EveryBucketProcessed ==
  /\ pc = "exit" => Len(mainArgv) # 1
  /\ ~lastCall.ok => pc # "done" /\ ENABLED Next
  /\ pc \notin {"main_entry", "exit"}
       => /\ bucketArray = ParsedBucketArray(mainArgv[1])
          /\ processed =
               NonEmpty(SubSeq(bucketArray, 1,
                               IF BetweenIterations THEN bi - 1 ELSE bi))
          /\ ~BetweenIterations
               => /\ iterObs.name = bucketName
                  /\ processed[Len(processed)] = bucketName
  /\ pc = "done" => processed = NonEmpty(bucketArray)

\* Both names were processed though calls failed for each of them: the
\* first bucket and its stack are left undeleted.
C15_Witness ==
  /\ pc = "done"
  /\ processed = << "b1", "b2" >>
  /\ nonDeletedBuckets = << "b1" >>
  /\ nonDeletedStacks = << "s1" >>

\* C16: a bucket for which a call failed with an error other than "not
\* found" is marked failed. deleteBucket returns true only when the bucket
\* was deleted or does not exist, so that a bucket that still exists when
\* its iteration ends is on the list of undeleted buckets.
C16_TrueOnlyWhenGone ==
  /\ (pc = "main_afterDelete" /\ wasDeleted) => bucketName \notin live
  /\ (iterObs.finished /\ iterObs.name \in live)
       => /\ iterObs.pushed
          /\ nonDeletedBuckets # << >>
          /\ nonDeletedBuckets[Len(nonDeletedBuckets)] = iterObs.name

\* C17: the exit codes of the clean-up driver. With a number of arguments
\* other than one the process exits with code 1 at once, before any call.
\* With one argument no error is left unhandled, so that code 1 is never
\* the outcome: the run ends at the summary with code 0, whether or not
\* buckets or stacks are listed as undeleted. No code is set before the end.
C17_ExitCodes ==
  /\ exitCode \in {<< >>, << 0 >>, << 1 >>}
  /\ exitCode = << >> <=> pc \notin {"done", "exit"}
  /\ exitCode = << 1 >> <=> pc = "exit"
  /\ exitCode = << 0 >> <=> pc = "done"
  /\ Len(mainArgv) # 1
       => /\ pc \in {"main_entry", "exit"}
          /\ processed = << >>
          /\ lastCall = NoCall
  /\ Len(mainArgv) = 1 => pc # "exit"

\* The run ended with code 0 and with undeleted buckets and stacks.
C17_Witness ==
  /\ exitCode = << 0 >>
  /\ Len(nonDeletedBuckets) = 2
  /\ Len(nonDeletedStacks) = 2

\* Two tasks of the list that are both under way.
Concurrent(list, t, u) ==
  t # u /\ list[t].at # "settled" /\ list[u].at # "settled"

\* C18: in each secrets script the tasks of one run touch disjoint
\* resources. No secret is the secret of two tasks of the run, and no two
\* tasks that are under way together have the same secret or are deleting
\* the same stack.
C18_DisjointResources ==
  /\ \A t, u \in DOMAIN tasks :
       t # u => tasks[t].name # tasks[u].name
  /\ \A t, u \in DOMAIN scTasks :
       /\ t # u => scTasks[t].name # scTasks[u].name
       /\ Concurrent(scTasks, t, u)
            => ~(/\ scTasks[t].op = "DeleteStack"
                 /\ scTasks[u].op = "DeleteStack"
                 /\ scTasks[t].stackName = scTasks[u].stackName)

\* C19: every DeleteObjects call of deletePageBatch and of
\* deletePageOneByOne carries at least 1 and at most 1000 object
\* identifiers, whatever the length of the array: the call that was issued
\* last does, and so does the one that is issued next (a chunk from the
\* batch loop, one object of the chunk from the fallback loop).
C19_DeleteObjectsWithinLimit ==
  /\ lastCall.op = "DeleteObjects"
       => Len(lastCall.objs) >= 1 /\ Len(lastCall.objs) <= CHUNK_SIZE
  /\ pc = "dpb_DeleteObjects"
       => /\ ci \in DOMAIN chunks
          /\ Len(chunks[ci]) >= 1
          /\ Len(chunks[ci]) <= CHUNK_SIZE
  /\ pc = "dpo_DeleteObjects"
       => ci \in DOMAIN chunks /\ oi \in DOMAIN chunks[ci]
  /\ (lastCall.op = "DeleteObjects" /\ dpbObs.fallback = "running")
       => Len(lastCall.objs) = 1 \/ (pc = "dpo_DeleteObjects" /\ oi = 1)

\* An array of 1001 identifiers: the second batch call carried the one
\* identifier that was left, after a first call with 1000.
C19_Witness ==
  /\ dpbObs.n = CHUNK_SIZE + 1
  /\ dpbObs.batchCalls = 2
  /\ dpbObs.fallback = "none"
  /\ lastCall.op = "DeleteObjects"
  /\ Len(lastCall.objs) = 1

\* The provider operation that is awaited at a position of the script.
AwaitedAt(site) ==
  CASE site = "cbc_ListObjectVersions" -> "ListObjectVersions"
    [] site \in {"dpb_DeleteObjects", "dpo_DeleteObjects"} -> "DeleteObjects"
    [] site = "cbc_PutBucketVersioning" -> "PutBucketVersioning"
    [] site = "mpu_ListMultipartUploads" -> "ListMultipartUploads"
    [] site = "mpu_AbortMultipartUpload" -> "AbortMultipartUpload"
    [] OTHER -> "none"

\* Where control is while the identifiers of a page are deleted.
DeletingSites == {"dpb_entry", "dpb_DeleteObjects", "dpo_DeleteObjects"}

\* A step taken while the identifiers of a page are deleted lists nothing
\* and stays in deletePageBatch until it returns.
NoListingWhileDeleting ==
  pc \in DeletingSites
    => /\ cbcObs'.lists = cbcObs.lists
       /\ lastCall' # lastCall => lastCall'.op = "DeleteObjects"
       /\ pc' \in DeletingSites \cup {"cbc_afterBatch"}

\* A ListObjectVersions call is one call, made from the head of the
\* listing loop when no deletion is under way.
ListingBetweenPages ==
  cbcObs'.lists > cbcObs.lists
    => /\ pc = "cbc_ListObjectVersions"
       /\ cbcObs'.lists = cbcObs.lists + 1
       /\ dpbObs = NoDpbObs

\* C20: while a bucket is emptied the provider calls are made one at a
\* time, each one the call awaited where control is. No ListObjectVersions
\* call is made while the identifiers of a page are being deleted, and when
\* deletePageBatch has returned, before the next page is listed, the batch
\* call of each chunk of the page has been made and, for a chunk whose
\* batch call failed, the single call of each of its identifiers.
C20_SequentialCalls ==
  /\ [][lastCall' # lastCall => lastCall'.op = AwaitedAt(pc)]_vars
  /\ [][NoListingWhileDeleting]_vars
  /\ [][ListingBetweenPages]_vars
  /\ [](pc = "cbc_afterBatch"
          => /\ dpbObs.fallback # "running"
             /\ dpbObs.returned
             /\ dpbObs.n = Len(ObjectsToDelete(page))
             /\ dpbObs.batchCalls = CeilDiv(dpbObs.n, CHUNK_SIZE)
             /\ dpbObs.batchFails > 0 => dpbObs.chunkSingles = dpbObs.fbLen)

\* A page of two identifiers whose batch call failed: both single calls
\* have been made, the second one failed, and another page is to be listed.
C20_Witness ==
  /\ pc = "cbc_afterBatch"
  /\ dpbObs.batchFails = 1
  /\ dpbObs.fbLen = 2
  /\ dpbObs.chunkSingles = 2
  /\ ~lastCall.ok
  /\ Truthy(OrUndefined(page.NextKeyMarker))

\* The task is through with step 5: GetSecretValue has answered, or has
\* thrown an error that callWithRetry did not retry.
ValueSettled(k) ==
  /\ k.got.asked
  /\ k.op = "CreateSecret" \/ (k.op = "GetSecretValue" /\ k.at = "settled")

\* The task went on from step 5 to step 6.
WentOnToCreate(k) == k.op = "CreateSecret"

\* The value of the original as the task has it: the SecretString that
\* GetSecretValue answered, or the empty string when there was none.
ValueOrEmpty(k) ==
  IF k.got.error = "" /\ k.got.value # Undef THEN k.got.value ELSE ""

\* A step in which a task's CreateSecret succeeds adds the copy of its
\* secret, with the value the task has, and nothing else.
CopyHasTheValue ==
  \A t \in DOMAIN tasks :
    (tasks[t].op = "CreateSecret" /\ tasks'[t].op = "DeleteSecret")
      => /\ created' = created \cup
              {[Name |-> NewSecretName(tasks[t].name),
                SecretString |-> ValueOrEmpty(tasks[t])]}
         /\ created' # created

\* Copies are only made in such steps.
CopyOnlyOnCreate ==
  created' # created
    => \E t \in DOMAIN tasks :
         tasks[t].op = "CreateSecret" /\ tasks'[t].op = "DeleteSecret"

\* C22, as stated: the `-delete-me` secret gets the original's value, or
\* the empty string when GetSecretValue answers no SecretString or fails,
\* and in either case the task goes on to CreateSecret.  It fails for a
\* GetSecretValue that throws another error than
\* ResourceNotFoundException: the task ends there.
C22_GoesOnAfterAnyFailure ==
  \A t \in DOMAIN tasks :
    ValueSettled(tasks[t])
      => /\ WentOnToCreate(tasks[t])
         /\ tasks[t].secretString = ValueOrEmpty(tasks[t])

\* C22, amended: the `-delete-me` secret gets the original's value, or the
\* empty string when GetSecretValue answers no SecretString or throws a
\* ResourceNotFoundException, and in these cases the task goes on to
\* CreateSecret with that value and, when CreateSecret succeeds, to
\* DeleteSecret of the original; when GetSecretValue throws another error,
\* the task ends with neither call.
C22_CopyHasValueOrEmpty ==
  /\ [][CopyHasTheValue]_vars
  /\ [][CopyOnlyOnCreate]_vars
  /\ [](\A t \in DOMAIN tasks :
          LET k == tasks[t]
          IN  /\ (ValueSettled(k)
                    /\ k.got.error \in {"", "ResourceNotFoundException"})
                  => /\ WentOnToCreate(k)
                     /\ k.secretString = ValueOrEmpty(k)
              /\ (ValueSettled(k)
                    /\ k.got.error \notin {"", "ResourceNotFoundException"})
                  => /\ k.outcome = "failed"
                     /\ k.issued = {"DescribeSecret", "GetSecretValue"}
              /\ k.op = "DeleteSecret"
                  => /\ "CreateSecret" \in k.issued
                     /\ \E c \in created :
                          /\ c.Name = NewSecretName(k.name)
                          /\ c.SecretString = k.secretString
              /\ k.outcome = "renamed"
                  => \E r \in scheduled : r.SecretId = k.name)

\* GetSecretValue threw a ResourceNotFoundException and the task goes on to
\* CreateSecret with the empty string.
C22_Witness ==
  \E t \in DOMAIN tasks :
    /\ tasks[t].got = Thrown("ResourceNotFoundException")
    /\ tasks[t].op = "CreateSecret"
    /\ tasks[t].at = "call"
    /\ tasks[t].attempt = 0
    /\ tasks[t].secretString = ""

\* The calls of markSecretForDeletion in their order.
CallSequence ==
  << "DescribeSecret", "GetSecretValue", "CreateSecret", "DeleteSecret" >>

\* The calls up to and including `op`.
CallsUpTo(op) ==
  { CallSequence[i] : i \in { j \in 1..4 :
      \E n \in j..4 : CallSequence[n] = op } }

\* The copy of the task's secret exists.
CopyExists(k) == \E c \in created : c.Name = NewSecretName(k.name)

\* Another task, for the same name, has renamed the secret.
RenamedByAnother(t) ==
  \E u \in DOMAIN tasks \ {t} :
    tasks[u].name = tasks[t].name /\ tasks[u].outcome = "renamed"

\* A task issues DeleteSecret only when its own CreateSecret has succeeded,
\* and a task that has returned issues nothing more.
DeleteSecretOnlyAfterCopy ==
  \A t \in DOMAIN tasks :
    /\ ("DeleteSecret" \in tasks'[t].issued
          /\ "DeleteSecret" \notin tasks[t].issued)
       => /\ tasks[t].op = "DeleteSecret"
          /\ "CreateSecret" \in tasks[t].issued
          /\ CopyExists(tasks[t])
    /\ tasks[t].at = "settled" => tasks'[t] = tasks[t]

\* C23: DeleteSecret of the original is issued only after the CreateSecret
\* of its `-delete-me` copy has succeeded in the same task. A task issues
\* its calls in the order DescribeSecret, GetSecretValue, CreateSecret,
\* DeleteSecret; when one of them fails (GetSecretValue otherwise than by
\* ResourceNotFoundException), the task returns without any later call.
\* No secret is scheduled for deletion without its copy existing.
C23_DeleteOnlyAfterCreate ==
  /\ [][DeleteSecretOnlyAfterCopy]_vars
  /\ [](\A t \in DOMAIN tasks :
          LET k == tasks[t]
          IN  /\ k.issued \subseteq CallsUpTo(k.op)
              /\ k.at = "settled" => k.issued = CallsUpTo(k.op)
              /\ k.op = "DeleteSecret" => CopyExists(k)
              /\ (k.outcome = "failed" /\ ~RenamedByAnother(t))
                  => \A r \in scheduled : r.SecretId # k.name)
  /\ [](\A r \in scheduled :
          \E c \in created : c.Name = NewSecretName(r.SecretId))

\* CreateSecret failed with an error that is not retried: the task has
\* returned without DeleteSecret and its secret is not scheduled.
C23_Witness ==
  \E t \in DOMAIN tasks :
    /\ tasks[t].op = "CreateSecret"
    /\ tasks[t].outcome = "failed"
    /\ tasks[t].issued =
         {"DescribeSecret", "GetSecretValue", "CreateSecret"}
    /\ ~CopyExists(tasks[t])
    /\ scheduled = {}
    /\ rsPc = "done"

\* C24: for a secret whose name is not of the form
\* integrations/<hex-and-dash id>/netsuite/<alphanumeric>/credentials, the
\* only call ever issued is DescribeSecret, whatever its last access: no
\* GetSecretValue, no CreateSecret of its copy, no DeleteSecret.
C24_OtherNamesOnlyDescribed ==
  \A t \in DOMAIN tasks :
    LET k == tasks[t]
    IN  k.name \notin MatchingNames
          => /\ k.issued \subseteq {"DescribeSecret"}
             /\ k.op = "DescribeSecret"
             /\ ~k.got.asked
             /\ \A c \in created : c.Name # NewSecretName(k.name)
             /\ \A r \in scheduled : r.SecretId # k.name

\* A secret whose id is not hexadecimal, last accessed 200 days ago, was
\* left after its DescribeSecret, and the other task has returned too.
C24_Witness ==
  \E t, u \in DOMAIN tasks :
    /\ tasks[t].name = Name_BadId
    /\ tasks[t].lastAccessed = [present |-> TRUE, days |-> 200, ms |-> 0]
    /\ tasks[t].outcome = "format"
    /\ tasks[t].issued = {"DescribeSecret"}
    /\ u # t
    /\ tasks[u].at = "settled"

\* The first attempt of deleteCloudFormationStack fails in this step
\* because an export of the stack is in use by another stack.
FirstAttemptFailsOnExport ==
  /\ pc = "cfn_Wait1"
  /\ ~lastCall'.ok
  /\ lastCall'.reason = ExportInUse

\* Such a step ends deleteCloudFormationStack: clearBucketContents is not
\* called and there is no way to the second DeleteStack.
ExportInUseEndsTheAttempts ==
  FirstAttemptFailsOnExport
    => /\ cfnObs'.returned
       /\ cfnObs'.cleared = 0
       /\ pc' \notin {"cbc_ListObjectVersions", "cfn_DeleteStack2"}

\* C25: in deleteCloudFormationStack, when the deletion of the stack fails
\* because an export is in use by another stack, further attempts are
\* skipped: the bucket is not emptied for a retry and no second DeleteStack
\* is issued.  The code does not do so: the catch block of the first
\* attempt does not look at the reason, and clearBucketContents and the
\* retry follow every failure.
C25_ExportInUseSkipsRetry == [][ExportInUseEndsTheAttempts]_vars

\* The existence check of deleteCloudFormationStack is the call that ended
\* the invocation.
ExistenceCheckFailed ==
  /\ cfnObs.returned
  /\ lastCall.op = "DescribeStacks"
  /\ ~lastCall.ok

\* C26: one invocation of deleteCloudFormationStack appends the stack name
\* to nonDeletedStacks at most once, and does so exactly when disabling
\* the termination protection failed or both attempts to delete the stack
\* failed. When the existence check fails there is no DeleteStack and the
\* stack is not recorded; when the first attempt succeeds, the routine
\* does not empty the bucket and records nothing.
C26_RecordedExactlyOnFailure ==
  /\ cfnObs.recorded \in {0, 1}
  /\ cfnObs.recorded = 1 => cfnObs.returned
  /\ cfnObs.returned =>
       /\ Len(nonDeletedStacks) = iterObs.stacksBefore + cfnObs.recorded
       /\ cfnObs.recorded = 1
            <=> cfnObs.protectionFailed \/ cfnObs.failedAttempts = 2
       /\ cfnObs.recorded = 1 =>
            nonDeletedStacks[Len(nonDeletedStacks)] = stackName
       /\ cfnObs.failedAttempts = 2 =>
            cfnObs.deleteStacks = 2 /\ ~cfnObs.protectionFailed
       /\ (cfnObs.deleteStacks >= 1 /\ cfnObs.failedAttempts = 0) =>
            /\ cfnObs.deleteStacks = 1
            /\ cfnObs.cleared = 0
            /\ iterObs.clears = 0
            /\ cfnObs.recorded = 0
  /\ ExistenceCheckFailed =>
       /\ cfnObs.deleteStacks = 0
       /\ cfnObs.recorded = 0
       /\ iterObs.clears = 0

\* The existence check has failed after the termination protection was
\* disabled, and the list of undeleted stacks is as it was.
C26_Witness ==
  /\ ExistenceCheckFailed
  /\ iterObs.tagged
  /\ pc = "db_GetBucketLocation"
  /\ nonDeletedStacks = << >>
  /\ cfnObs.deleteStacks = 0

\* The list of undeleted buckets changes only when deleteBucket has
\* returned false: then the name of the current iteration is appended,
\* once, and the loop goes to the next name.
PushedOnlyOnResult ==
  /\ nonDeletedBuckets' # nonDeletedBuckets
       => /\ pc = "main_afterDelete"
          /\ ~wasDeleted
          /\ nonDeletedBuckets' = Append(nonDeletedBuckets, bucketName)
          /\ bi' = bi + 1
  /\ (pc = "main_afterDelete" /\ pc' # pc /\ wasDeleted)
       => nonDeletedBuckets' = nonDeletedBuckets

\* The iteration for a name has ended and the loop has not yet gone on.
IterationJustFinished == iterObs.finished /\ lastCall.op # "none"

\* deleteCloudFormationStack returns to the call of deleteBucket.
DeleteBucketFollowsStack ==
  (cfnObs'.returned /\ ~cfnObs.returned)
    => /\ pc' = "db_GetBucketLocation"
       /\ stack' = << "main_afterDelete" >>

\* C27: for a bucket with the tag aws:cloudformation:stack-name, main calls
\* deleteBucket when deleteCloudFormationStack has returned, whether the
\* stack was deleted, was recorded as undeleted or was not found; the
\* bucket is appended to nonDeletedBuckets exactly when that deleteBucket
\* returned false, and at most once for each occurrence of its name on
\* the command line.
C27_FinalDeleteBucketDecides ==
  /\ [][DeleteBucketFollowsStack]_vars
  /\ [][PushedOnlyOnResult]_vars
  /\ [](cfnObs.returned => pc = "db_GetBucketLocation")
  /\ [](IterationJustFinished
          => /\ iterObs.tagged => iterObs.locations = 2
             /\ iterObs.pushed <=> ~wasDeleted)
  /\ [](Len(nonDeletedBuckets) <= Len(processed))

\* The stack of a tagged bucket was recorded as undeleted, yet deleteBucket
\* returned true and the bucket is not on the list.
C27_Witness ==
  /\ iterObs.tagged
  /\ IterationJustFinished
  /\ nonDeletedStacks = << "s1" >>
  /\ wasDeleted
  /\ nonDeletedBuckets = << >>
  /\ processed = << "b1" >>

\* The entries of the page in hand, versions before delete markers.
PageEntries == page.Versions \o page.DeleteMarkers

\* The page in hand has no entry with a key.
NothingKeyed == \A i \in DOMAIN PageEntries : PageEntries[i].Key = 0

\* deletePageBatch, entered for a page without a keyed entry, returns in
\* its first step to clearBucketContents with no provider call.
EmptyBatchReturnsAtOnce ==
  (pc = "dpb_entry" /\ NothingKeyed)
    => /\ objects = << >>
       /\ pc' = "cbc_afterBatch"
       /\ lastCall' = lastCall
       /\ dpbObs'.returned
       /\ dpbObs'.batchCalls = 0
       /\ dpbObs'.chunkSingles = 0
       /\ cbcObs' = cbcObs
       /\ page' = page

\* After deletePageBatch, the loop lists again with the markers of the
\* page when it has one, whatever the page held.
MarkersFollowed ==
  (pc = "cbc_afterBatch"
     /\ (page.NextKeyMarker \notin {Undef, ""}
           \/ page.NextVersionIdMarker \notin {Undef, ""}))
    => /\ pc' = "cbc_ListObjectVersions"
       /\ nextKeyMarker' = (IF page.NextKeyMarker = "" THEN Undef
                            ELSE page.NextKeyMarker)
       /\ nextVersionIdMarker' = (IF page.NextVersionIdMarker = ""
                                  THEN Undef ELSE page.NextVersionIdMarker)

\* C30: for a listing page without any entry that has a key (an empty
\* page, or entries without a key only), deletePageBatch issues no
\* DeleteObjects call and returns; an entry without a key is never among
\* the identifiers handed to deletePageBatch or sent in a DeleteObjects
\* call; and clearBucketContents still follows the continuation markers of
\* such a page.
C30_KeylessPageNoDelete ==
  /\ [][EmptyBatchReturnsAtOnce]_vars
  /\ [][MarkersFollowed]_vars
  /\ [](\A i \in DOMAIN objects : objects[i].Key # 0)
  /\ [](lastCall.op = "DeleteObjects"
          => /\ lastCall.objs # << >>
             /\ \A i \in DOMAIN lastCall.objs : lastCall.objs[i].Key # 0)
  /\ [](pc = "dpb_entry"
          => Len(objects) =
               Cardinality({ i \in DOMAIN PageEntries :
                               PageEntries[i].Key # 0 }))

\* A page of entries without a key, with continuation markers, has been
\* through deletePageBatch without a call, and the listing goes on.
C30_Witness ==
  /\ pc = "cbc_afterBatch"
  /\ PageEntries # << >>
  /\ NothingKeyed
  /\ page.NextKeyMarker \notin {Undef, ""}
  /\ dpbObs.returned
  /\ dpbObs.batchCalls = 0
  /\ lastCall.op = "ListObjectVersions"

\* The findings of the responses, in the order received.
RECURSIVE FindingsOf(_)
FindingsOf(responses) ==
  IF responses = << >> THEN << >>
  ELSE (IF Head(responses).Findings.present
        THEN Head(responses).Findings.items
        ELSE << >>) \o FindingsOf(Tail(responses))

\* The response carries a continuation token.
CarriesToken(response) == response.NextToken \notin {Undef, ""}

\* The cell shows the value of the field, or the placeholder when the
\* field is missing.
Shown(cell, value, placeholder) ==
  IF value = Undef THEN cell = placeholder ELSE cell = value

\* The cells that both sheets have are filled from finding f.
CommonCells(row, f) ==
  /\ Shown(row.accountId, f.AwsAccountId, "UNKNOWN_ACCOUNT")
  /\ Shown(row.accountName, f.AwsAccountName, "N/A")
  /\ Shown(row.region, f.Region, "N/A")
  /\ IF f.Resources.present /\ f.Resources.items # << >>
     THEN Shown(row.name, f.Resources.items[1].Name, "N/A")
     ELSE row.name = "N/A"

\* The tag cell of the second sheet: the tag of the first resource, a
\* placeholder when there is none, and another one when the name is missing.
TagCell(row, f) ==
  IF row.name = "N/A"
  THEN row.tags \in {"N/A (invalid Secrets name)",
                     "N/A (invalid bucket name)"}
  ELSE IF f.Resources.items[1].Tags.present
  THEN Shown(row.tags, f.Resources.items[1].Tags.stackName, "N/A")
  ELSE row.tags = "N/A"

\* C21: the report generators page through GetFindings with the
\* continuation token until a response carries none (an empty token
\* counts as none). For a chain of k responses there are exactly k calls,
\* the first one without token and each later one with the token of the
\* response before it; the findings collected are those of all responses
\* in order; and each of the two sheets gets one row per finding, in that
\* order, each cell with the field of the finding or, when the field is
\* missing, with its placeholder.
C21_PagesThenRows ==
  /\ sh.at # "failed" => Len(sh.calls) = Len(sh.responses)
  /\ \A i \in DOMAIN sh.calls :
       sh.calls[i] = IF i = 1 THEN Undef ELSE sh.responses[i - 1].NextToken
  /\ \A i \in DOMAIN sh.responses :
       i < Len(sh.responses) => CarriesToken(sh.responses[i])
  /\ sh.at = "GetFindings"
       => sh.responses = << >>
            \/ CarriesToken(sh.responses[Len(sh.responses)])
  /\ sh.at \in {"rows", "done"}
       => /\ sh.responses # << >>
          /\ ~CarriesToken(sh.responses[Len(sh.responses)])
  /\ sh.findings = FindingsOf(sh.responses)
  /\ sh.at = "done"
       => /\ DOMAIN sh.noSslRows = DOMAIN sh.findings
          /\ DOMAIN sh.cfnTagRows = DOMAIN sh.findings
          /\ \A i \in DOMAIN sh.findings :
               LET f == sh.findings[i]
               IN  /\ CommonCells(sh.noSslRows[i], f)
                   /\ CommonCells(sh.cfnTagRows[i], f)
                   /\ Shown(sh.noSslRows[i].lastUpdated, f.UpdatedAt, "N/A")
                   /\ IF f.Severity.present
                      THEN Shown(sh.noSslRows[i].severity, f.Severity.Label,
                                 "N/A")
                      ELSE sh.noSslRows[i].severity = "N/A"
                   /\ TagCell(sh.cfnTagRows[i], f)
  /\ sh.at # "done" => sh.noSslRows = << >> /\ sh.cfnTagRows = << >>

\* Two responses, the first with a token and two findings, the second with
\* one finding and no token: two calls, and three rows in each sheet, with
\* placeholders for the finding that has nothing in it.
C21_Witness ==
  /\ sh.at = "done"
  /\ Len(sh.calls) = 2
  /\ sh.calls[2] = Tok("t", 1)
  /\ Len(sh.responses[1].Findings.items) = 2
  /\ Len(sh.noSslRows) = 3
  /\ Len(sh.cfnTagRows) = 3
  /\ sh.noSslRows[2].accountId = "UNKNOWN_ACCOUNT"
  /\ sh.cfnTagRows[2].tags = "N/A (invalid Secrets name)"
  /\ sh.cfnTagRows[1].tags = "s1"

\* C28: categorizeBucket always returns at the lifecycle / empty-bucket
\* check or at the recent-objects check, because the output for the recent
\* objects is compared both != and == against "None": whatever the CLI
\* prints, the result is 'No Longer Used (Cleanup)' at the first check,
\* 'Unsure (Review)' or 'Manual Review Required' at the second, and never
\* 'Stale CloudFormation', 'Actively Used (Fix in Code)' or the empty
\* string.
C28_ReturnsAtFirstTwoChecks ==
  /\ cb.at = "returned"
       => /\ cb.returnedAt \in {"lifecycle check", "recent-objects check"}
          /\ cb.result \in {"No Longer Used (Cleanup)", "Unsure (Review)",
                            "Manual Review Required"}
          /\ cb.result \notin {"Stale CloudFormation",
                               "Actively Used (Fix in Code)", ""}
          /\ cb.returnedAt = "lifecycle check"
               <=> cb.result = "No Longer Used (Cleanup)"
          /\ cb.result = "Manual Review Required"
               <=> /\ cb.returnedAt = "recent-objects check"
                   /\ cb.recentObjects = << "N", "o", "n", "e" >>
  /\ cb.at # "returned" => cb.result = "" /\ cb.returnedAt = ""

\* The listing of recent objects printed None for a bucket that has
\* objects and a lifecycle rule without expiration: the result is 'Manual
\* Review Required', at the second check.
C28_Witness ==
  /\ cb.at = "returned"
  /\ cb.recentObjects = Lit_None
  /\ cb.objectList = << "k", "1", " ", "9" >>
  /\ ~includes(cb.lifecyclePolicy, Lit_Expiration)
  /\ cb.lifecyclePolicy # << >>
  /\ cb.result = "Manual Review Required"
  /\ cb.returnedAt = "recent-objects check"

\* The buckets that passed the existence check and were not removed.
LeftBehind ==
  { b \in Range(al.existing_buckets) : b \notin al.removed }

\* C29: apply-lifecycle.sh prints 'All existing buckets were successfully
\* deleted' only in runs where every bucket that passed the existence
\* check was removed, and a bucket that exists and was not removed within
\* the retry window is listed among the buckets not deleted.  The script
\* does not do so: a bucket that is still there and to which the lifecycle
\* policy could be applied is not put on failed_deletions.
C29_ReportOnlyWhenAllDeleted ==
  al.report # ""
    => /\ al.report = Report_AllDeleted => LeftBehind = {}
       /\ LeftBehind \subseteq Range(al.failed_deletions)

====
